---------------------------- MODULE Spec2Model ----------------------------
(***************************************************************************)
(* FoosPulse: the live match session engine (apps/api) and the rating and  *)
(* stats recomputation jobs (apps/worker), as state machines over the      *)
(* relational store and the Celery queues.                                 *)
(*                                                                         *)
(* Several specifications share the variables:                             *)
(*   SpecSeq    the session operations, one request at a time              *)
(*   Spec       the same operations as concurrent transactions, with the   *)
(*              queues and the worker                                      *)
(*   SpecRatings  matches entered directly, the rating jobs on two workers *)
(*              and the bulk recalculation                                 *)
(*   SpecStats  matches entered and voided, the stats jobs on two workers  *)
(***************************************************************************)
EXTENDS Integers, Sequences, FiniteSets, Bags, TLC

VARIABLES
    session,            \* the committed live_match_sessions row
    events,             \* the committed live_match_session_events rows, by id
    matches,            \* the committed matches rows, by id
    rating_snapshots,   \* the committed rating_snapshots rows
    stats_snapshots,    \* the committed stats_snapshots rows
    ratings_queue,      \* the Celery queue "ratings": a bag of jobs
    stats_queue,        \* the Celery queue "stats": a bag of jobs
    reqs,               \* the API requests in flight: each one's unit of work
    workers,            \* the worker processes: each one's open transaction
    last,               \* the last response served or job outcome logged
    clock,              \* datetime.utcnow(), as a logical clock
    league,             \* the committed leagues row: its settings
    cache,              \* the last full stats response a client holds
    channel,            \* the messages published on the session's channel
    sse                 \* a subscriber's event stream (event_generator)

vars == <<session, events, matches, rating_snapshots, stats_snapshots,
          ratings_queue, stats_queue, reqs, workers, last, clock, league,
          cache, channel, sse>>

(***************************************************************************)
(* Bounds of the model.                                                    *)
(***************************************************************************)
\* SpecSeq: the instant after which no request is served (every request
\* reads the clock once)
MaxOps == 4
\* Spec: the instant after which no request begins (requests and jobs read
\* the clock once each)
MaxRequests == 3

\* SpecRatings, SpecStats: the matches entered, and the last instant at
\* which a request is made or a job is taken
MaxMatches == 2
MaxTime == 6
\* the recompute route is not called with this many rating jobs waiting
MaxJobs == 2

(***************************************************************************)
(* Values.                                                                 *)
(***************************************************************************)
\* a NULL timestamp or foreign key; timestamps and ids start at 1
NULL == 0
\* a NULL team or player reference (Optional[str] = None)
NoRef == "none"

\* models/live_match.py: LiveMatchStatus
WAITING == "waiting"
ACTIVE == "active"
PAUSED == "paused"
COMPLETED == "completed"
ABANDONED == "abandoned"
LiveMatchStatus == {WAITING, ACTIVE, PAUSED, COMPLETED, ABANDONED}

\* models/live_match.py: LiveEventType
GOAL == "goal"
GAMELLIZED == "gamellized"
LOBBED == "lobbed"
TIMEOUT == "timeout"
CUSTOM == "custom"
LiveEventType == {GOAL, GAMELLIZED, LOBBED, TIMEOUT, CUSTOM}

\* the participants of the session (mode 1v1): one player per side
SessionPlayers == [A |-> "p1", B |-> "p2"]

\* schemas/live_match.py: LiveMatchEventInput, the inputs tried: every scoring
\* type on both sides, with and without a target player, and the events
\* that carry no score (timeout, custom, a goal without a side)
EventInput(t, s, p) == [event_type |-> t, team |-> s, against_player_id |-> p]

LiveMatchEventInput ==
    { EventInput(GOAL, "A", NoRef), EventInput(GOAL, "B", NoRef),
      EventInput(GAMELLIZED, "A", "p1"), EventInput(GAMELLIZED, "B", NoRef),
      EventInput(LOBBED, "A", NoRef), EventInput(LOBBED, "B", "p2"),
      EventInput(TIMEOUT, "A", NoRef), EventInput(CUSTOM, NoRef, NoRef),
      EventInput(GOAL, NoRef, NoRef) }

\* the event inputs tried by the concurrent requests of Spec
ConcurrentEventInput ==
    { EventInput(GOAL, "A", NoRef), EventInput(LOBBED, "B", NoRef) }

\* the score override tried by the concurrent requests of Spec
ConcurrentScoreUpdate == { <<2, 0>> }

\* schemas/live_match.py: LiveMatchScoreUpdate (ge=-20, le=20), the values tried
LiveMatchScoreUpdate == { <<2, 0>>, <<0, -1>> }

\* schemas/live_match.py: LiveMatchStatusUpdate
LiveMatchStatusUpdate == {ACTIVE, PAUSED, COMPLETED, ABANDONED}

(***************************************************************************)
(* services/live_match.py                                                  *)
(***************************************************************************)
\* create_live_match_session: the row a new session starts from
create_live_match_session(now) ==
    [ status |-> WAITING, team_a_score |-> 0, team_b_score |-> 0,
      started_at |-> NULL, ended_at |-> NULL, finalized_match_id |-> NULL,
      created_at |-> now ]

update_session_status(s, new_status, now) ==
    LET s1 == [s EXCEPT !.status = new_status] IN
    IF new_status = ACTIVE /\ s.started_at = NULL
    THEN [s1 EXCEPT !.started_at = now]
    ELSE IF new_status \in {COMPLETED, ABANDONED}
    THEN [s1 EXCEPT !.ended_at = now]
    ELSE s1

update_session_score(s, team_a_score, team_b_score) ==
    [s EXCEPT !.team_a_score = team_a_score, !.team_b_score = team_b_score]

\* the row record_event adds to the log
NewEvent(data) ==
    [ event_type |-> data.event_type, team |-> data.team,
      against_player_id |-> data.against_player_id, undone_at |-> NULL ]

\* record_event: the score update of the session object
record_event(s, data) ==
    IF data.team # NoRef
    THEN IF data.event_type = GOAL
         THEN IF data.team = "A"
              THEN [s EXCEPT !.team_a_score = @ + 1]
              ELSE [s EXCEPT !.team_b_score = @ + 1]
         ELSE IF data.event_type = GAMELLIZED
         THEN IF data.team = "A"
              THEN [s EXCEPT !.team_a_score = @ - 1]
              ELSE [s EXCEPT !.team_b_score = @ - 1]
         ELSE IF data.event_type = LOBBED
         THEN IF data.team = "A"
              THEN [s EXCEPT !.team_a_score = @ - 3]
              ELSE [s EXCEPT !.team_b_score = @ - 3]
         ELSE s
    ELSE s

\* a slip in the reversal of lobbed: +1 given back instead of +3
undo_event_lobbed_by_one(s, event) ==
    IF event.team # NoRef
    THEN IF event.event_type = GOAL
         THEN IF event.team = "A"
              THEN [s EXCEPT !.team_a_score = @ - 1]
              ELSE [s EXCEPT !.team_b_score = @ - 1]
         ELSE IF event.event_type \in {GAMELLIZED, LOBBED}
         THEN IF event.team = "A"
              THEN [s EXCEPT !.team_a_score = @ + 1]
              ELSE [s EXCEPT !.team_b_score = @ + 1]
         ELSE s
    ELSE s

\* undo_event: the score update of the session object
undo_event(s, event) ==
    IF event.team # NoRef
    THEN IF event.event_type = GOAL
         THEN IF event.team = "A"
              THEN [s EXCEPT !.team_a_score = @ - 1]
              ELSE [s EXCEPT !.team_b_score = @ - 1]
         ELSE IF event.event_type = GAMELLIZED
         THEN IF event.team = "A"
              THEN [s EXCEPT !.team_a_score = @ + 1]
              ELSE [s EXCEPT !.team_b_score = @ + 1]
         ELSE IF event.event_type = LOBBED
         THEN IF event.team = "A"
              THEN [s EXCEPT !.team_a_score = @ + 3]
              ELSE [s EXCEPT !.team_b_score = @ + 3]
         ELSE s
    ELSE s

\* finalize_session: the MatchEvent row made of a live event
MatchEvent(le) ==
    [ event_type |-> "gamelle", against_player_id |-> le.against_player_id,
      count |-> 1 ]

\* finalize_session: the live events that are carried over
CarriedOver(evs) ==
    SelectSeq(evs, LAMBDA le :
        /\ le.undone_at = NULL
        /\ le.event_type = GAMELLIZED
        /\ le.against_player_id # NoRef)

\* finalize_session: the match row built from the session (its id is drawn
\* by uuid4; the model uses the instant of the INSERT, which is as unique)
finalize_match(s, evs, now) ==
    [ id |-> now, status |-> "valid", mode |-> "1v1",
      team_a_score |-> s.team_a_score, team_b_score |-> s.team_b_score,
      played_at |-> IF s.started_at # NULL THEN s.started_at ELSE s.created_at,
      created_at |-> now,
      team_a |-> {SessionPlayers.A}, team_b |-> {SessionPlayers.B},
      void_reason |-> <<>>,
      events |-> [i \in DOMAIN CarriedOver(evs) |->
                     MatchEvent(CarriedOver(evs)[i])] ]

\* finalize_session: the session object afterwards
finalize_session(s, match_id, now) ==
    [s EXCEPT !.finalized_match_id = match_id, !.status = COMPLETED,
              !.ended_at = now]

(***************************************************************************)
(* routes/live_matches.py: each handler as a function from what the        *)
(* request read (the session row s, its events evs) and its input to the   *)
(* unit of work it leaves for get_db to commit, or to the error it raises  *)
(* (get_db then rolls back).  authorized is verify_scorer_access's answer. *)
(***************************************************************************)
Work(op, s) ==
    [ op |-> op, error |-> "ok", seen |-> s, obj |-> s, add_events |-> <<>>,
      undo |-> NULL, undone_at |-> NULL, add_match |-> <<>>, confirm |-> TRUE ]

\* what the client is answered: the error, or the session object as the
\* handler left it (the scores and the status in the response body)
Response(w) == [op |-> w.op, error |-> w.error, obj |-> w.obj]

Raise(op, code, s) == [Work(op, s) EXCEPT !.error = code]

record_live_match_event(s, data, authorized, now) ==
    IF ~authorized THEN Raise("recordEvent", "FORBIDDEN", s)
    ELSE IF s.status \notin {WAITING, ACTIVE}
    THEN Raise("recordEvent", "VALIDATION_ERROR", s)
    ELSE LET s1 == IF s.status = WAITING
                   THEN update_session_status(s, ACTIVE, now) ELSE s
         IN [Work("recordEvent", s) EXCEPT
                !.obj = record_event(s1, data),
                !.add_events = <<NewEvent(data)>>]

undo_live_match_event(s, evs, event_id, authorized, now) ==
    IF ~authorized THEN Raise("undoEvent", "FORBIDDEN", s)
    ELSE IF event_id \notin DOMAIN evs THEN Raise("undoEvent", "NOT_FOUND", s)
    ELSE IF evs[event_id].undone_at # NULL
    THEN Raise("undoEvent", "VALIDATION_ERROR", s)
    ELSE [Work("undoEvent", s) EXCEPT
             !.obj = undo_event(s, evs[event_id]),
             !.undo = event_id, !.undone_at = now]

update_live_match_score(s, data, authorized) ==
    IF ~authorized THEN Raise("setScore", "FORBIDDEN", s)
    ELSE [Work("setScore", s) EXCEPT
             !.obj = update_session_score(s, data[1], data[2])]

\* update_live_match_status: valid_transitions
valid_transitions(current) ==
    IF current = WAITING THEN {ACTIVE, ABANDONED}
    ELSE IF current = ACTIVE THEN {PAUSED, COMPLETED, ABANDONED}
    ELSE IF current = PAUSED THEN {ACTIVE, COMPLETED, ABANDONED}
    ELSE {}

update_live_match_status(s, new, authorized, now) ==
    IF ~authorized THEN Raise("changeStatus", "FORBIDDEN", s)
    ELSE IF new \notin valid_transitions(s.status)
    THEN Raise("changeStatus", "VALIDATION_ERROR", s)
    ELSE [Work("changeStatus", s) EXCEPT
             !.obj = update_session_status(s, new, now)]

finalize_live_match(s, evs, confirm, authorized, now) ==
    IF ~authorized THEN Raise("finalize", "FORBIDDEN", s)
    ELSE IF ~confirm
    THEN [Raise("finalize", "VALIDATION_ERROR", s) EXCEPT !.confirm = FALSE]
    ELSE IF s.status = COMPLETED /\ s.finalized_match_id # NULL
    THEN Raise("finalize", "CONFLICT", s)
    ELSE IF s.status = ABANDONED
    THEN Raise("finalize", "VALIDATION_ERROR", s)
    ELSE LET match == finalize_match(s, evs, now) IN
         [Work("finalize", s) EXCEPT
             !.obj = finalize_session(s, match.id, now),
             !.add_match = <<match>>]

abandon_live_match(s, authorized, now) ==
    IF ~authorized THEN Raise("abandon", "FORBIDDEN", s)
    ELSE IF s.status \in {COMPLETED, ABANDONED}
    THEN Raise("abandon", "VALIDATION_ERROR", s)
    ELSE [Work("abandon", s) EXCEPT
             !.obj = update_session_status(s, ABANDONED, now)]

(***************************************************************************)
(* realtime/pubsub.py: the messages a handler publishes on the channel of  *)
(* the session before it returns (publish_event: event and data).          *)
(***************************************************************************)
publish_event(event_type, data) == [event |-> event_type, data |-> data]

publish_status_change(new_status) ==
    publish_event("status_change", [status |-> new_status])

\* publish_goal, publish_gamellized, publish_lobbed: the team and the scores
\* of the session object; publish_timeout: the team; publish_custom_event
publish_recorded(data, s) ==
    IF data.event_type \in {GOAL, GAMELLIZED, LOBBED}
    THEN publish_event(data.event_type,
            [ team |-> data.team, team_a_score |-> s.team_a_score,
              team_b_score |-> s.team_b_score ])
    ELSE publish_event(data.event_type, [team |-> data.team])

publish_undo(event_id, s) ==
    publish_event("undo",
        [ event_id |-> event_id, team_a_score |-> s.team_a_score,
          team_b_score |-> s.team_b_score ])

publish_score_update(team_a_score, team_b_score) ==
    publish_event("score_update",
        [team_a_score |-> team_a_score, team_b_score |-> team_b_score])

\* what the handler that left the unit of work w has published
Published(w) ==
    IF w.error # "ok" THEN <<>>
    ELSE IF w.op = "recordEvent"
    THEN (IF w.seen.status = WAITING
          THEN <<publish_status_change(ACTIVE)>> ELSE <<>>)
         \o <<publish_recorded(w.add_events[1], w.obj)>>
    ELSE IF w.op = "undoEvent" THEN <<publish_undo(w.undo, w.obj)>>
    ELSE IF w.op = "setScore"
    THEN <<publish_score_update(w.obj.team_a_score, w.obj.team_b_score)>>
    ELSE <<publish_status_change(w.obj.status)>>

(***************************************************************************)
(* services/queue.py: send_task puts one job on the queue.                 *)
(***************************************************************************)
\* countdown: the delay the job was sent with (0: at once)
RatingJob(match_id) == [match_id |-> match_id, retries |-> 0, countdown |-> 0]
StatsJob == [retries |-> 0, countdown |-> 0]

enqueue_rating_update(q, match_id) == q (+) SetToBag({RatingJob(match_id)})
enqueue_stats_recompute(q) == q (+) SetToBag({StatsJob})

\* the jobs a handler's unit of work has sent by the time it returns
SentRatings(w) ==
    IF w.error = "ok" /\ w.add_match # <<>>
    THEN enqueue_rating_update(ratings_queue, w.add_match[1].id)
    ELSE ratings_queue

SentStats(w) ==
    IF w.error = "ok" /\ w.add_match # <<>>
    THEN enqueue_stats_recompute(stats_queue)
    ELSE stats_queue

(***************************************************************************)
(* database.py, get_db: commit on return, rollback on an exception.  The   *)
(* flush of a changed ORM object is an UPDATE that sets the attributes     *)
(* whose value differs from the value loaded, and no other column.         *)
(***************************************************************************)
\* an UPDATE that writes every column of the object, changed or not
FlushWholeRow(seen, obj, row) == obj

Flush(seen, obj, row) ==
    [c \in DOMAIN row |-> IF obj[c] # seen[c] THEN obj[c] ELSE row[c]]

CommittedSession(w) ==
    IF w.error = "ok" THEN Flush(w.seen, w.obj, session) ELSE session

CommittedEvents(w) ==
    IF w.error # "ok" THEN events
    ELSE [i \in DOMAIN events |->
             IF i = w.undo THEN [events[i] EXCEPT !.undone_at = w.undone_at]
             ELSE events[i]] \o w.add_events

CommittedMatches(w) ==
    IF w.error # "ok" THEN matches
    ELSE matches \cup {w.add_match[i] : i \in DOMAIN w.add_match}

(***************************************************************************)
(* worker/tasks/ratings.py                                                 *)
(***************************************************************************)
K_FACTOR == 32
INITIAL_RATING == 1200
\* @app.task(max_retries=5)
max_retries == 5

\* K_FACTOR * calculate_expected_score(d, 0), in millionths, for the rating
\* differences d = -EloRange .. EloRange (entry d + EloRange + 1): the values
\* of 32 / (1 + 10 ** (-d / 400)) in the code's floating point arithmetic
ExpectedTable ==
   <<
      2909091, 2924351, 2939682, 2955086, 2970562, 2986111, 3001733, 3017428,
      3033197, 3049039, 3064955, 3080946, 3097011, 3113151, 3129366, 3145656,
      3162021, 3178463, 3194980, 3211574, 3228244, 3244991, 3261815, 3278716,
      3295695, 3312752, 3329886, 3347099, 3364391, 3381761, 3399210, 3416739,
      3434347, 3452035, 3469803, 3487651, 3505580, 3523589, 3541680, 3559851,
      3578105, 3596440, 3614857, 3633356, 3651938, 3670602, 3689350, 3708181,
      3727095, 3746093, 3765174, 3784341, 3803591, 3822926, 3842346, 3861851,
      3881442, 3901118, 3920880, 3940728, 3960662, 3980683, 4000790, 4020985,
      4041267, 4061636, 4082093, 4102638, 4123270, 4143992, 4164802, 4185700,
      4206688, 4227765, 4248931, 4270187, 4291533, 4312969, 4334496, 4356113,
      4377820, 4399619, 4421509, 4443490, 4465563, 4487727, 4509984, 4532333,
      4554774, 4577308, 4599934, 4622654, 4645466, 4668372, 4691372, 4714466,
      4737653, 4760934, 4784310, 4807781, 4831346, 4855006, 4878761, 4902611,
      4926557, 4950598, 4974735, 4998968, 5023297, 5047722, 5072244, 5096863,
      5121578, 5146390, 5171299, 5196305, 5221409, 5246610, 5271909, 5297306,
      5322801, 5348394, 5374085, 5399875, 5425763, 5451750, 5477835, 5504020,
      5530303, 5556686, 5583168, 5609750, 5636431, 5663212, 5690092, 5717073,
      5744153, 5771334, 5798615, 5825996, 5853477, 5881059, 5908742, 5936525,
      5964409, 5992394, 6020480, 6048667, 6076955, 6105344, 6133834, 6162426,
      6191119, 6219914, 6248810, 6277807, 6306907, 6336107, 6365410, 6394814,
      6424320, 6453928, 6483638, 6513450, 6543363, 6573379, 6603496, 6633716,
      6664037, 6694461, 6724986, 6755614, 6786343, 6817175, 6848109, 6879144,
      6910282, 6941522, 6972863, 7004307, 7035853, 7067500, 7099249, 7131101,
      7163054, 7195108, 7227265, 7259523, 7291882, 7324344, 7356906, 7389570,
      7422336, 7455203, 7488171, 7521240, 7554410, 7587681, 7621052, 7654525,
      7688098, 7721772, 7755546, 7789421, 7823396, 7857471, 7891646, 7925920,
      7960295, 7994769, 8029342, 8064015, 8098787, 8133657, 8168627, 8203695,
      8238862, 8274127, 8309491, 8344952, 8380511, 8416168, 8451922, 8487773,
      8523722, 8559767, 8595909, 8632147, 8668481, 8704912, 8741438, 8778059,
      8814776, 8851588, 8888495, 8925496, 8962592, 8999781, 9037065, 9074442,
      9111912, 9149475, 9187131, 9224879, 9262720, 9300652, 9338676, 9376791,
      9414996, 9453293, 9491680, 9530157, 9568723, 9607379, 9646124, 9684957,
      9723879, 9762889, 9801987, 9841171, 9880443, 9919801, 9959246, 9998776,
      10038392, 10078093, 10117878, 10157748, 10197701, 10237738, 10277859, 10318061,
      10358347, 10398714, 10439162, 10479691, 10520301, 10560992, 10601761, 10642611,
      10683538, 10724545, 10765629, 10806790, 10848029, 10889344, 10930735, 10972202,
      11013744, 11055360, 11097051, 11138815, 11180652, 11222562, 11264544, 11306597,
      11348722, 11390917, 11433182, 11475516, 11517920, 11560392, 11602932, 11645539,
      11688213, 11730954, 11773760, 11816631, 11859566, 11902566, 11945629, 11988755,
      12031944, 12075194, 12118505, 12161877, 12205308, 12248799, 12292349, 12335956,
      12379622, 12423344, 12467122, 12510957, 12554846, 12598790, 12642787, 12686838,
      12730941, 12775096, 12819303, 12863559, 12907866, 12952223, 12996628, 13041081,
      13085581, 13130128, 13174721, 13219359, 13264042, 13308769, 13353540, 13398353,
      13443208, 13488104, 13533041, 13578018, 13623033, 13668088, 13713180, 13758310,
      13803475, 13848677, 13893914, 13939184, 13984489, 14029826, 14075195, 14120596,
      14166028, 14211489, 14256980, 14302499, 14348046, 14393621, 14439221, 14484847,
      14530498, 14576174, 14621872, 14667594, 14713337, 14759101, 14804886, 14850690,
      14896514, 14942355, 14988214, 15034090, 15079982, 15125889, 15171810, 15217745,
      15263693, 15309653, 15355625, 15401607, 15447599, 15493600, 15539610, 15585627,
      15631651, 15677682, 15723717, 15769757, 15815801, 15861848, 15907898, 15953948,
      16000000, 16046052, 16092102, 16138152, 16184199, 16230243, 16276283, 16322318,
      16368349, 16414373, 16460390, 16506400, 16552401, 16598393, 16644375, 16690347,
      16736307, 16782255, 16828190, 16874111, 16920018, 16965910, 17011786, 17057645,
      17103486, 17149310, 17195114, 17240899, 17286663, 17332406, 17378128, 17423826,
      17469502, 17515153, 17560779, 17606379, 17651954, 17697501, 17743020, 17788511,
      17833972, 17879404, 17924805, 17970174, 18015511, 18060816, 18106086, 18151323,
      18196525, 18241690, 18286820, 18331912, 18376967, 18421982, 18466959, 18511896,
      18556792, 18601647, 18646460, 18691231, 18735958, 18780641, 18825279, 18869872,
      18914419, 18958919, 19003372, 19047777, 19092134, 19136441, 19180697, 19224904,
      19269059, 19313162, 19357213, 19401210, 19445154, 19489043, 19532878, 19576656,
      19620378, 19664044, 19707651, 19751201, 19794692, 19838123, 19881495, 19924806,
      19968056, 20011245, 20054371, 20097434, 20140434, 20183369, 20226240, 20269046,
      20311787, 20354461, 20397068, 20439608, 20482080, 20524484, 20566818, 20609083,
      20651278, 20693403, 20735456, 20777438, 20819348, 20861185, 20902949, 20944640,
      20986256, 21027798, 21069265, 21110656, 21151971, 21193210, 21234371, 21275455,
      21316462, 21357389, 21398239, 21439008, 21479699, 21520309, 21560838, 21601286,
      21641653, 21681939, 21722141, 21762262, 21802299, 21842252, 21882122, 21921907,
      21961608, 22001224, 22040754, 22080199, 22119557, 22158829, 22198013, 22237111,
      22276121, 22315043, 22353876, 22392621, 22431277, 22469843, 22508320, 22546707,
      22585004, 22623209, 22661324, 22699348, 22737280, 22775121, 22812869, 22850525,
      22888088, 22925558, 22962935, 23000219, 23037408, 23074504, 23111505, 23148412,
      23185224, 23221941, 23258562, 23295088, 23331519, 23367853, 23404091, 23440233,
      23476278, 23512227, 23548078, 23583832, 23619489, 23655048, 23690509, 23725873,
      23761138, 23796305, 23831373, 23866343, 23901213, 23935985, 23970658, 24005231,
      24039705, 24074080, 24108354, 24142529, 24176604, 24210579, 24244454, 24278228,
      24311902, 24345475, 24378948, 24412319, 24445590, 24478760, 24511829, 24544797,
      24577664, 24610430, 24643094, 24675656, 24708118, 24740477, 24772735, 24804892,
      24836946, 24868899, 24900751, 24932500, 24964147, 24995693, 25027137, 25058478,
      25089718, 25120856, 25151891, 25182825, 25213657, 25244386, 25275014, 25305539,
      25335963, 25366284, 25396504, 25426621, 25456637, 25486550, 25516362, 25546072,
      25575680, 25605186, 25634590, 25663893, 25693093, 25722193, 25751190, 25780086,
      25808881, 25837574, 25866166, 25894656, 25923045, 25951333, 25979520, 26007606,
      26035591, 26063475, 26091258, 26118941, 26146523, 26174004, 26201385, 26228666,
      26255847, 26282927, 26309908, 26336788, 26363569, 26390250, 26416832, 26443314,
      26469697, 26495980, 26522165, 26548250, 26574237, 26600125, 26625915, 26651606,
      26677199, 26702694, 26728091, 26753390, 26778591, 26803695, 26828701, 26853610,
      26878422, 26903137, 26927756, 26952278, 26976703, 27001032, 27025265, 27049402,
      27073443, 27097389, 27121239, 27144994, 27168654, 27192219, 27215690, 27239066,
      27262347, 27285534, 27308628, 27331628, 27354534, 27377346, 27400066, 27422692,
      27445226, 27467667, 27490016, 27512273, 27534437, 27556510, 27578491, 27600381,
      27622180, 27643887, 27665504, 27687031, 27708467, 27729813, 27751069, 27772235,
      27793312, 27814300, 27835198, 27856008, 27876730, 27897362, 27917907, 27938364,
      27958733, 27979015, 27999210, 28019317, 28039338, 28059272, 28079120, 28098882,
      28118558, 28138149, 28157654, 28177074, 28196409, 28215659, 28234826, 28253907,
      28272905, 28291819, 28310650, 28329398, 28348062, 28366644, 28385143, 28403560,
      28421895, 28440149, 28458320, 28476411, 28494420, 28512349, 28530197, 28547965,
      28565653, 28583261, 28600790, 28618239, 28635609, 28652901, 28670114, 28687248,
      28704305, 28721284, 28738185, 28755009, 28771756, 28788426, 28805020, 28821537,
      28837979, 28854344, 28870634, 28886849, 28902989, 28919054, 28935045, 28950961,
      28966803, 28982572, 28998267, 29013889, 29029438, 29044914, 29060318, 29075649,
      29090909 >>

\* the rating differences the table of expected scores covers
EloRange == (Len(ExpectedTable) - 1) \div 2

\* K_FACTOR * calculate_expected_score(rating_a, rating_b), in millionths
calculate_expected_score(rating_a, rating_b) ==
    ExpectedTable[(rating_a - rating_b) + EloRange + 1]

\* K_FACTOR * calculate_actual_score(_, score_for, score_against), in
\* millionths: K * (0.5 + score_diff / max_diff * 0.5) with max_diff = 10
calculate_actual_score(score_for, score_against) ==
    (K_FACTOR * 1000000) \div 2
      + ((score_for - score_against) * K_FACTOR * 1000000) \div 20

\* calculate_new_rating: round(old_rating + K * (actual - expected)), with
\* expected and actual already multiplied by K, in millionths
calculate_new_rating(old_rating, expected, actual) ==
    old_rating + ((actual - expected + 500000) \div 1000000)

\* the rating a snapshot query ordered by computed_at desc, limit 1, may
\* return for a player and mode: INITIAL_RATING when there is no snapshot,
\* any of the newest when several share the newest computed_at
LatestRatings(snaps, player_id, mode) ==
    LET mine == {r \in snaps : r.player_id = player_id /\ r.mode = mode} IN
    IF mine = {} THEN {INITIAL_RATING}
    ELSE {r.rating : r \in {x \in mine :
                               \A y \in mine : y.computed_at <= x.computed_at}}

Avg2(ratings, team) ==
    LET RECURSIVE Sum(_)
        Sum(ps) == IF ps = {} THEN 0
                   ELSE LET q == CHOOSE q \in ps : TRUE
                        IN ratings[q] + Sum(ps \ {q})
    IN (2 * Sum(team)) \div Cardinality(team)

\* the new ratings of a match from the players' current ratings; a side's
\* average is kept doubled (Avg2) and must be whole for the table
NewRatings(match, player_ratings) ==
    LET team_a_avg == Avg2(player_ratings, match.team_a) \div 2
        team_b_avg == Avg2(player_ratings, match.team_b) \div 2
    IN [p \in match.team_a \cup match.team_b |->
          IF p \in match.team_a
          THEN calculate_new_rating(player_ratings[p],
                  calculate_expected_score(player_ratings[p], team_b_avg),
                  calculate_actual_score(match.team_a_score, match.team_b_score))
          ELSE calculate_new_rating(player_ratings[p],
                  calculate_expected_score(player_ratings[p], team_a_avg),
                  calculate_actual_score(match.team_b_score, match.team_a_score))]

RatingSnapshot(match, player_id, rating, now) ==
    [ player_id |-> player_id, mode |-> match.mode, rating |-> rating,
      as_of_match_id |-> match.id, computed_at |-> now ]

\* update_ratings_for_match up to db.commit(): the outcome of one execution
\* that read the committed rows ms and snaps and took player_ratings as the
\* players' latest ratings: a return without a write, or the rows to insert
update_ratings_for_match(job, ms, snaps, player_ratings, now) ==
    LET found == {m \in ms : m.id = job.match_id} IN
    IF found = {} THEN [result |-> "error: Match not found", insert |-> {}]
    ELSE LET match == CHOOSE m \in found : TRUE IN
    IF match.status # "valid"
    THEN [result |-> "skipped: Match is not valid", insert |-> {}]
    ELSE IF match.team_a \cup match.team_b = {}
    THEN [result |-> "error: No players in match", insert |-> {}]
    ELSE IF \E r \in snaps : r.as_of_match_id = match.id /\ r.mode = match.mode
    THEN [result |-> "skipped: Ratings already computed", insert |-> {}]
    ELSE IF match.team_a = {} \/ match.team_b = {}
    THEN [result |-> "raise: ZeroDivisionError", insert |-> {}]
    ELSE LET new_ratings == NewRatings(match, player_ratings) IN
         [ result |-> "commit",
           insert |-> { RatingSnapshot(match, p, new_ratings[p], now) :
                          p \in DOMAIN new_ratings } ]

\* the players whose latest rating an execution for this job reads
JobPlayers(job, ms) ==
    UNION {m.team_a \cup m.team_b : m \in {x \in ms : x.id = job.match_id}}

\* mode = match.mode.value of the job's match (no rating is read when the
\* match is not found)
JobMode(job, ms) ==
    IF \E m \in ms : m.id = job.match_id
    THEN (CHOOSE m \in ms : m.id = job.match_id).mode ELSE "1v1"

\* a rating_snapshots table without uq_rating_player_match_mode
UniqueViolation_no_constraint(rows, snaps) == FALSE

\* uq_rating_player_match_mode: the INSERT of rows fails on a committed row
\* with the same (player_id, as_of_match_id, mode)
UniqueViolation(rows, snaps) ==
    \E r \in rows, c \in snaps :
        /\ r.player_id = c.player_id
        /\ r.as_of_match_id = c.as_of_match_id
        /\ r.mode = c.mode

\* self.retry(exc, countdown=2 ** retries): the job goes back on the queue
\* with one more retry, unless max_retries is used up
\* a retry that does not count the attempts
Retry_without_limit(q, job) ==
    q (+) SetToBag({[job EXCEPT !.countdown = 2 ^ job.retries]})

Retry(q, job) ==
    IF job.retries < max_retries
    THEN q (+) SetToBag({[job EXCEPT !.retries = @ + 1,
                                     !.countdown = 2 ^ job.retries]})
    ELSE q

(***************************************************************************)
(* worker/tasks/stats.py                                                   *)
(***************************************************************************)
SnapshotTypes == {"leaderboards", "synergy", "matchups"}

\* the orders in which a SELECT ... ORDER BY played_at may return rows
OrderedByPlayedAt(rows) ==
    { q \in [1..Cardinality(rows) -> rows] :
        /\ \A i, j \in DOMAIN q : i < j => q[i].played_at <= q[j].played_at
        /\ \A r \in rows : \E i \in DOMAIN q : q[i] = r }

\* compute_source_hash without its sort: the rows hashed in query order
compute_source_hash_unsorted(ms) ==
    [i \in DOMAIN ms |-> <<ms[i].id, ms[i].created_at>>]

\* compute_source_hash: sha256 of the "id:created_at" pairs of the matches
\* sorted by id; the digest is modelled by the text it is taken of
compute_source_hash(ms) ==
    LET ids == {ms[i].id : i \in DOMAIN ms}
        RECURSIVE Sorted(_)
        Sorted(left) ==
            IF left = {} THEN <<>>
            ELSE LET lo == CHOOSE x \in left : \A y \in left : x <= y
                     m == ms[CHOOSE i \in DOMAIN ms : ms[i].id = lo]
                 IN <<<<m.id, m.created_at>>>> \o Sorted(left \ {lo})
    IN Sorted(ids)

\* the payload of a snapshot: the matches it was computed from
StatsData(ms) == {ms[i].id : i \in DOMAIN ms}

\* compute_leaderboards: the rating a query for a player's snapshots ordered
\* by computed_at desc, limit 1 (whatever their mode), may return; 1200 when
\* there is none
LatestRatingsAnyMode(rsnaps, player_id) ==
    LET mine == {r \in rsnaps : r.player_id = player_id} IN
    IF mine = {} THEN {1200}
    ELSE {r.rating : r \in {x \in mine :
                               \A y \in mine : y.computed_at <= x.computed_at}}

\* compute_leaderboards: the Elo boards (player to value) an execution may
\* build for the players of the matches ms from the committed ratings
EloBoards(ms, rsnaps) ==
    LET players == UNION {ms[i].team_a \cup ms[i].team_b : i \in DOMAIN ms}
    IN { elo \in [players -> {1200} \cup {r.rating : r \in rsnaps}] :
           \A p \in players : elo[p] \in LatestRatingsAnyMode(rsnaps, p) }

\* compute_leaderboards: whether player p of the match is counted a winner
player_won(match, p) ==
    LET team_a_won == match.team_a_score > match.team_b_score
    IN \/ p \in match.team_a /\ team_a_won
       \/ p \in match.team_b /\ ~team_a_won

\* compute_leaderboards: stats["wins"] of each player of the matches ms
Wins(ms) ==
    [p \in UNION {ms[i].team_a \cup ms[i].team_b : i \in DOMAIN ms} |->
        Cardinality({ i \in DOMAIN ms :
                        /\ p \in ms[i].team_a \cup ms[i].team_b
                        /\ player_won(ms[i], p) })]

\* recompute_league_stats up to db.commit(): the outcome of one execution
\* that read the valid matches in the order ms and the committed rows snaps
\* and built the Elo board elo; each row carries what it was computed from
recompute_league_stats(ms, snaps, elo, now) ==
    IF ms = <<>> THEN [result |-> "skipped: No matches", insert |-> {}]
    ELSE LET source_hash == compute_source_hash(ms) IN
    IF \E r \in snaps : r.source_hash = source_hash
    THEN [result |-> "skipped: Stats unchanged", insert |-> {}]
    ELSE [ result |-> "commit",
           insert |-> { [ snapshot_type |-> st, source_hash |-> source_hash,
                          computed_at |-> now, data |-> StatsData(ms),
                          elo |-> elo, wins |-> Wins(ms) ] :
                        st \in SnapshotTypes } ]

(***************************************************************************)
(* models/league.py, routes/leagues.py: the settings of the league.        *)
(***************************************************************************)
DEFAULT_LEAGUE_SETTINGS ==
    [show_gamelles_board |-> TRUE, show_shame_stats |-> TRUE]

\* LeagueSettingsUpdate: each field is optional (<<>> is None)
LeagueSettingsUpdate ==
    [ show_gamelles_board : {<<>>, <<TRUE>>, <<FALSE>>},
      show_shame_stats : {<<>>, <<TRUE>>, <<FALSE>>} ]

\* update_league_settings: the leagues row afterwards
update_league_settings(row, settings_data) ==
    [ settings |->
        [ show_gamelles_board |->
              IF settings_data.show_gamelles_board # <<>>
              THEN settings_data.show_gamelles_board[1]
              ELSE row.settings.show_gamelles_board,
          show_shame_stats |->
              IF settings_data.show_shame_stats # <<>>
              THEN settings_data.show_shame_stats[1]
              ELSE row.settings.show_shame_stats ] ]

(***************************************************************************)
(* routes/stats.py: the leaderboards read and its ETag.                    *)
(***************************************************************************)
\* the boards compute_leaderboards returns
Boards ==
    { "elo", "win_rate", "attack_win_rate", "defense_win_rate",
      "gamelles_delivered", "gamelles_received", "current_streak" }

\* the header value f'"{source_hash}"'
ETag(source_hash) == [quoted |-> TRUE, value |-> source_hash]

\* if_none_match.strip('"')
strip(token) == [token EXCEPT !.quoted = FALSE]

\* check_etag: the client's copy is valid (if_none_match is <<>> when the
\* request has no If-None-Match header)
check_etag(if_none_match, source_hash) ==
    /\ if_none_match # <<>>
    /\ strip(if_none_match[1]) = [quoted |-> FALSE, value |-> source_hash]

\* the boards the settings of the league hide
HiddenBoards(settings) ==
    (IF ~settings.show_gamelles_board
     THEN {"gamelles_received", "gamelles_given", "gamelle_rate"} ELSE {})
    \cup
    (IF ~settings.show_shame_stats
     THEN {"worst_streak", "gamelles_received", "most_losses"} ELSE {})

\* the rows the SELECT of get_leaderboards matches
LeaderboardsRows(snaps) == {s \in snaps : s.snapshot_type = "leaderboards"}

\* get_leaderboards: the response to a request that read the rows snaps and
\* the leagues row
get_leaderboards(snaps, row, if_none_match) ==
    LET found == LeaderboardsRows(snaps)
        snapshot == CHOOSE s \in found :
                        \A t \in found : t.computed_at <= s.computed_at
        settings == row.settings
    IN IF found = {}
       THEN [ status |-> 200, etag |-> <<>>,
              data |-> <<[ leaderboards |-> [k \in {} |-> {}],
                           source_hash |-> <<>>,
                           message |-> "No stats computed yet" ]>> ]
       ELSE IF check_etag(if_none_match, snapshot.source_hash)
       THEN [ status |-> 304, etag |-> <<ETag(snapshot.source_hash)>>,
              data |-> <<>> ]
       ELSE [ status |-> 200, etag |-> <<ETag(snapshot.source_hash)>>,
              data |-> <<[ leaderboards |->
                              [k \in Boards \ HiddenBoards(settings) |->
                                  snapshot.data],
                           source_hash |-> snapshot.source_hash,
                           filtered |-> \/ ~settings.show_gamelles_board
                                        \/ ~settings.show_shame_stats ]>> ]

(***************************************************************************)
(* realtime/sse.py: event_generator.  A subscriber's stream: pc is where   *)
(* the generator stands, read the number of channel messages it has taken, *)
(* idle the seconds since it last yielded an event, out the events it has  *)
(* yielded.                                                                *)
(***************************************************************************)
get_message_timeout == 1
wait_for_timeout == 30

NotConnected == [pc |-> "start", read |-> 0, idle |-> 0, out |-> <<>>]

format_sse_event(event_type) == event_type

(***************************************************************************)
(* The API requests in flight and the worker processes.                    *)
(***************************************************************************)
Reqs == {"r1", "r2"}
Workers == {"w1", "w2"}
Idle == [op |-> "idle"]

(***************************************************************************)
(* SpecSeq: the session operations, one request at a time.  Each action is *)
(* a whole request: load, handler, commit or rollback.                     *)
(***************************************************************************)
Serve(w) ==
    /\ clock' = clock + 1
    /\ session' = CommittedSession(w)
    /\ events' = CommittedEvents(w)
    /\ matches' = CommittedMatches(w)
    /\ ratings_queue' = SentRatings(w)
    /\ stats_queue' = SentStats(w)
    /\ last' = Response(w)
    /\ channel' = channel \o Published(w)
    /\ UNCHANGED <<rating_snapshots, stats_snapshots, reqs, workers,
                   league, cache, sse>>

RecordEvent ==
    /\ clock <= MaxOps
    /\ \E data \in LiveMatchEventInput, authorized \in BOOLEAN :
          Serve(record_live_match_event(session, data, authorized, clock + 1))

UndoEvent ==
    /\ clock <= MaxOps
    /\ \E event_id \in 1..(Len(events) + 1), authorized \in BOOLEAN :
          Serve(undo_live_match_event(session, events, event_id, authorized,
                                      clock + 1))

SetScore ==
    /\ clock <= MaxOps
    /\ \E data \in LiveMatchScoreUpdate, authorized \in BOOLEAN :
          Serve(update_live_match_score(session, data, authorized))

ChangeStatus ==
    /\ clock <= MaxOps
    /\ \E new \in LiveMatchStatusUpdate, authorized \in BOOLEAN :
          Serve(update_live_match_status(session, new, authorized, clock + 1))

Finalize ==
    /\ clock <= MaxOps
    /\ \E confirm \in BOOLEAN, authorized \in BOOLEAN :
          Serve(finalize_live_match(session, events, confirm, authorized,
                                    clock + 1))

Abandon ==
    /\ clock <= MaxOps
    /\ \E authorized \in BOOLEAN :
          Serve(abandon_live_match(session, authorized, clock + 1))

InitSeq ==
    /\ clock = 1
    /\ session = create_live_match_session(1)
    /\ events = <<>>
    /\ matches = {}
    /\ ratings_queue = EmptyBag
    /\ stats_queue = EmptyBag
    /\ rating_snapshots = {}
    /\ stats_snapshots = {}
    /\ reqs = [r \in Reqs |-> Idle]
    /\ workers = [w \in Workers |-> Idle]
    /\ last = [op |-> "create", error |-> "ok", obj |-> session]
    /\ league = [settings |-> DEFAULT_LEAGUE_SETTINGS]
    /\ cache = <<>>
    /\ channel = <<>>
    /\ sse = NotConnected

NextSeq ==
    \/ RecordEvent
    \/ UndoEvent
    \/ SetScore
    \/ ChangeStatus
    \/ Finalize
    \/ Abandon

SpecSeq == InitSeq /\ [][NextSeq]_vars

(***************************************************************************)
(* Spec: the same requests as concurrent transactions (READ COMMITTED, no  *)
(* lock taken by any handler), and the worker consuming the two queues.    *)
(* A request reads the session when it begins; its handler runs on what it *)
(* read and has sent its jobs by the time it returns; get_db commits (or   *)
(* rolls back) afterwards.                                                 *)
(***************************************************************************)
\* the slot a new request or job takes: the first that is free
FirstIdle(slots, used) ==
    CHOOSE x \in slots :
        /\ used[x] = Idle
        /\ \A y \in slots : used[y] = Idle => ~(y \in {"r1", "w1"} /\ x # y)

Begin(r, w) ==
    /\ reqs[r] = Idle
    /\ r = FirstIdle(Reqs, reqs)
    /\ clock <= MaxRequests
    /\ clock' = clock + 1
    /\ reqs' = [reqs EXCEPT ![r] = w]
    /\ ratings_queue' = SentRatings(w)
    /\ stats_queue' = SentStats(w)
    /\ channel' = channel \o Published(w)
    /\ UNCHANGED <<session, events, matches, rating_snapshots,
                   stats_snapshots, workers, last,
                   league, cache, sse>>

\* the requests of Spec come from authorized scorers (SpecSeq tries the
\* unauthorized ones); finalize is also tried unconfirmed
RecordEventRequest ==
    \E r \in Reqs, data \in ConcurrentEventInput :
        Begin(r, record_live_match_event(session, data, TRUE, clock + 1))

UndoEventRequest ==
    \E r \in Reqs, event_id \in 1..(Len(events) + 1) :
        Begin(r, undo_live_match_event(session, events, event_id, TRUE,
                                       clock + 1))

SetScoreRequest ==
    \E r \in Reqs, data \in ConcurrentScoreUpdate :
        Begin(r, update_live_match_score(session, data, TRUE))

ChangeStatusRequest ==
    \E r \in Reqs, new \in LiveMatchStatusUpdate :
        Begin(r, update_live_match_status(session, new, TRUE, clock + 1))

FinalizeRequest ==
    \E r \in Reqs, confirm \in BOOLEAN :
        Begin(r, finalize_live_match(session, events, confirm, TRUE,
                                     clock + 1))

AbandonRequest ==
    \E r \in Reqs :
        Begin(r, abandon_live_match(session, TRUE, clock + 1))

\* get_db after the handler: commit, or rollback when it raised
Return ==
    \E r \in Reqs :
        /\ reqs[r] # Idle
        /\ session' = CommittedSession(reqs[r])
        /\ events' = CommittedEvents(reqs[r])
        /\ matches' = CommittedMatches(reqs[r])
        /\ last' = Response(reqs[r])
        /\ reqs' = [reqs EXCEPT ![r] = Idle]
        /\ UNCHANGED <<rating_snapshots, stats_snapshots, ratings_queue,
                       stats_queue, workers, clock,
                       league, cache, channel, sse>>

\* what a worker logs of an execution of a job
JobResult(op, result, job) == [op |-> op, error |-> result, obj |-> job]

\* the choices of "latest rating per player" an execution may read
PlayerRatings(players, snaps, mode) ==
    { f \in [players -> {INITIAL_RATING} \cup {r.rating : r \in snaps}] :
        \A p \in players : f[p] \in LatestRatings(snaps, p, mode) }

\* a worker takes a rating job and runs it up to db.commit()
RatingJobRun(pool) ==
    \E w \in pool, job \in BagToSet(ratings_queue) :
    \E player_ratings \in PlayerRatings(JobPlayers(job, matches),
                                        rating_snapshots,
                                        JobMode(job, matches)) :
        LET out == update_ratings_for_match(job, matches, rating_snapshots,
                                            player_ratings, clock + 1)
            taken == ratings_queue (-) SetToBag({job})
        IN /\ workers[w] = Idle
           /\ w = FirstIdle(pool, workers)
           /\ clock' = clock + 1
           /\ workers' = [workers EXCEPT ![w] =
                 IF out.result = "commit"
                 THEN [op |-> "ratings", job |-> job, insert |-> out.insert,
                       prior |-> player_ratings]
                 ELSE Idle]
           /\ ratings_queue' = IF out.result = "raise: ZeroDivisionError"
                               THEN Retry(taken, job) ELSE taken
           /\ last' = JobResult("rating job", out.result, job)
           /\ UNCHANGED <<session, events, matches, rating_snapshots,
                          stats_snapshots, stats_queue, reqs,
                          league, cache, channel, sse>>

\* db.commit() of a rating job: the INSERTs, or an IntegrityError and a retry
RatingJobCommit(pool) ==
    \E w \in pool :
        /\ workers[w] # Idle
        /\ workers[w].op = "ratings"
        /\ IF UniqueViolation(workers[w].insert, rating_snapshots)
           THEN /\ ratings_queue' = Retry(ratings_queue, workers[w].job)
                /\ last' = JobResult("rating job commit",
                                     "raise: IntegrityError", workers[w].job)
                /\ UNCHANGED rating_snapshots
           ELSE /\ rating_snapshots' = rating_snapshots \cup workers[w].insert
                /\ last' = JobResult("rating job commit", "ok", workers[w].job)
                /\ UNCHANGED ratings_queue
        /\ workers' = [workers EXCEPT ![w] = Idle]
        /\ UNCHANGED <<session, events, matches, stats_snapshots, stats_queue,
                       reqs, clock,
                       league, cache, channel, sse>>

ValidMatches == {m \in matches : m.status = "valid"}

\* a worker takes a stats job and runs it up to db.commit(): the SELECTs,
\* and the DELETE of the rows committed at that moment
StatsJobRun(pool) ==
    \E w \in pool, job \in BagToSet(stats_queue) :
    \E ms \in OrderedByPlayedAt(ValidMatches) :
    \E elo \in EloBoards(ms, rating_snapshots) :
        LET out == recompute_league_stats(ms, stats_snapshots, elo,
                                          clock + 1) IN
        /\ workers[w] = Idle
        /\ w = FirstIdle(pool, workers)
        /\ clock' = clock + 1
        /\ workers' = [workers EXCEPT ![w] =
              IF out.result = "commit"
              THEN [op |-> "stats", job |-> job, insert |-> out.insert,
                    deleted |-> stats_snapshots]
              ELSE Idle]
        /\ stats_queue' = stats_queue (-) SetToBag({job})
        /\ last' = JobResult("stats job", out.result, job)
        /\ UNCHANGED <<session, events, matches, rating_snapshots,
                       stats_snapshots, ratings_queue, reqs,
                       league, cache, channel, sse>>

\* no unique constraint on (league, season, snapshot_type)
StatsUniqueViolation_no_constraint(rows, deleted) == FALSE

\* uq_stats_snapshot_league_season_type: the INSERTs of a stats job collide
\* with the committed rows its DELETE did not remove
StatsUniqueViolation(rows, deleted) == ~(rows \subseteq deleted)

\* db.commit() of a stats job.  Its DELETE ran at some moment between its
\* SELECTs and its commit and removed the rows committed at that moment: the
\* two extremes are the rows the job saw when it started and the rows
\* committed now.
StatsJobCommit(pool) ==
    \E w \in pool :
        /\ workers[w] # Idle
        /\ workers[w].op = "stats"
        /\ \E deleted \in {workers[w].deleted, stats_snapshots} :
              IF ~StatsUniqueViolation(stats_snapshots, deleted)
              THEN /\ stats_snapshots' =
                         (stats_snapshots \ deleted) \cup workers[w].insert
                   /\ last' = JobResult("stats job commit", "ok",
                                        workers[w].job)
                   /\ UNCHANGED stats_queue
              ELSE /\ stats_queue' = Retry(stats_queue, workers[w].job)
                   /\ last' = JobResult("stats job commit",
                                        "raise: IntegrityError", workers[w].job)
                   /\ UNCHANGED stats_snapshots
        /\ workers' = [workers EXCEPT ![w] = Idle]
        /\ UNCHANGED <<session, events, matches, rating_snapshots,
                       ratings_queue, reqs, clock,
                       league, cache, channel, sse>>

Init == InitSeq

Next ==
    \/ RecordEventRequest
    \/ UndoEventRequest
    \/ SetScoreRequest
    \/ ChangeStatusRequest
    \/ FinalizeRequest
    \/ AbandonRequest
    \/ Return
    \/ RatingJobRun({"w1"})
    \/ RatingJobCommit({"w1"})
    \/ StatsJobRun({"w1"})
    \/ StatsJobCommit({"w1"})

Spec == Init /\ [][Next]_vars

(***************************************************************************)
(* The league:  the matches of one league and season, entered directly      *)
(* (routes/matches.py), the admin routes that re-send the jobs and rebuild  *)
(* the ratings (routes/stats.py), and two worker processes.  A request     *)
(* here is committed before a worker takes a job it sent; the other order  *)
(* is in Spec.                                                             *)
(***************************************************************************)
Players == {"p1", "p2", "p3"}

\* MatchCreate bodies: 1v1 matches won 10-0 by p1, against p2 with
\* played_at left out (NULL) or set to the instant 1, against p3 with
\* played_at set to the instant 1
MatchInput(t, b) ==
    [ played_at |-> t, team_a_score |-> 10, team_b_score |-> 0,
      team_a |-> {"p1"}, team_b |-> {b} ]

MatchCreate == { MatchInput(NULL, "p2"), MatchInput(1, "p2"), MatchInput(1, "p3") }

\* create_match: the Match row (with its MatchPlayer rows) of a request
create_match(match_data, now) ==
    [ id |-> now, status |-> "valid", mode |-> "1v1",
      team_a_score |-> match_data.team_a_score,
      team_b_score |-> match_data.team_b_score,
      played_at |-> IF match_data.played_at # NULL
                    THEN match_data.played_at ELSE now,
      created_at |-> now,
      team_a |-> match_data.team_a, team_b |-> match_data.team_b,
      void_reason |-> <<>>,
      events |-> <<>> ]

\* schemas/match.py: MatchVoidRequest, the reason given
MatchVoidRequest == {"entered twice", "wrong score"}

\* void_match: the check that rejects the request
already_voided_unchecked(match) == FALSE

already_voided(match) == match.status = "void"

\* void_match: the row afterwards
void_match(match, void_data) ==
    [match EXCEPT !.status = "void", !.void_reason = <<void_data>>]

\* the loop of the recompute route: one rating job per valid match
RECURSIVE enqueue_rating_updates(_, _)
enqueue_rating_updates(q, ms) ==
    IF ms = {} THEN q
    ELSE LET m == CHOOSE m \in ms : TRUE
         IN enqueue_rating_updates(enqueue_rating_update(q, m.id), ms \ {m})

\* the loop of recalculate_all_ratings over the matches q[i], q[i+1], ...:
\* current_ratings is keyed by <<player, mode>>, acc is the rows added so
\* far, and the i-th match's rows are stamped now + i
RECURSIVE recalculate_from(_, _, _, _, _)
recalculate_from(q, i, current_ratings, acc, now) ==
    IF i > Len(q) THEN acc
    ELSE LET match == q[i]
             match_players == match.team_a \cup match.team_b
         IN IF match_players = {} \/ match.team_a = {} \/ match.team_b = {}
            THEN recalculate_from(q, i + 1, current_ratings, acc, now)
            ELSE LET player_ratings ==
                        [p \in match_players |->
                            current_ratings[<<p, match.mode>>]]
                     new_ratings == NewRatings(match, player_ratings)
                 IN recalculate_from(q, i + 1,
                       [k \in DOMAIN current_ratings |->
                           IF k[1] \in match_players /\ k[2] = match.mode
                           THEN new_ratings[k[1]] ELSE current_ratings[k]],
                       acc \cup { RatingSnapshot(match, p, new_ratings[p],
                                                 now + i) :
                                    p \in match_players },
                       now)

\* recalculate_all_ratings: the rows that replace every rating snapshot of
\* the league, from the valid matches in the order q the query gave them
recalculate_all_ratings(q, now) ==
    recalculate_from(q, 1,
                     [k \in Players \X {"1v1", "2v2"} |-> INITIAL_RATING],
                     {}, now)

\* POST /matches
CreateMatch ==
    /\ clock <= MaxTime
    /\ Cardinality(matches) < MaxMatches
    /\ \E match_data \in MatchCreate :
          LET match == create_match(match_data, clock + 1) IN
          /\ matches' = matches \cup {match}
          /\ ratings_queue' = enqueue_rating_update(ratings_queue, match.id)
          /\ stats_queue' = enqueue_stats_recompute(stats_queue)
          /\ last' = [op |-> "createMatch", error |-> "ok", obj |-> match]
    /\ clock' = clock + 1
    /\ UNCHANGED <<session, events, rating_snapshots, stats_snapshots, reqs,
                   workers,
                   league, cache, channel, sse>>

\* POST /matches/{id}/void
VoidMatch ==
    /\ clock <= MaxTime
    /\ \E match \in matches, void_data \in MatchVoidRequest :
          IF already_voided(match)
          THEN /\ last' = [op |-> "voidMatch", error |-> "VALIDATION_ERROR",
                           obj |-> match]
               /\ UNCHANGED <<matches, stats_queue>>
          ELSE /\ matches' = (matches \ {match})
                                 \cup {void_match(match, void_data)}
               /\ stats_queue' = enqueue_stats_recompute(stats_queue)
               /\ last' = [op |-> "voidMatch", error |-> "ok",
                           obj |-> void_match(match, void_data)]
    /\ clock' = clock + 1
    /\ UNCHANGED <<session, events, rating_snapshots, stats_snapshots,
                   ratings_queue, reqs, workers,
                   league, cache, channel, sse>>

\* POST /stats/recompute: the jobs of every valid match are sent again
TriggerRecompute ==
    /\ clock <= MaxTime
    /\ BagCardinality(ratings_queue) < MaxJobs
    /\ ratings_queue' = enqueue_rating_updates(ratings_queue, ValidMatches)
    /\ stats_queue' = enqueue_stats_recompute(stats_queue)
    /\ last' = [op |-> "recompute", error |-> "ok", obj |-> ValidMatches]
    /\ clock' = clock + 1
    /\ UNCHANGED <<session, events, matches, rating_snapshots,
                   stats_snapshots, reqs, workers,
                   league, cache, channel, sse>>

\* POST /stats/recalculate-ratings
RecalculateAllRatings ==
    /\ clock <= MaxTime
    /\ \E q \in OrderedByPlayedAt(ValidMatches) :
          /\ rating_snapshots' = recalculate_all_ratings(q, clock)
          /\ clock' = clock + Len(q) + 1
    /\ last' = [op |-> "recalculateRatings", error |-> "ok",
                obj |-> ValidMatches]
    /\ UNCHANGED <<session, events, matches, stats_snapshots, ratings_queue,
                   stats_queue, reqs, workers,
                   league, cache, channel, sse>>

\* the workers take a job while the clock is within MaxTime
TakeRatingJob == clock <= MaxTime /\ RatingJobRun(Workers)

TakeStatsJob == clock <= MaxTime /\ StatsJobRun(Workers)

\* SpecRatings: the rating side of the league, the stats worker stopped
NextRatings ==
    \/ CreateMatch
    \/ TriggerRecompute
    \/ RecalculateAllRatings
    \/ TakeRatingJob
    \/ RatingJobCommit(Workers)

SpecRatings == Init /\ [][NextRatings]_vars

\* SpecStats: the stats side of the league, the rating worker stopped
NextStats ==
    \/ CreateMatch
    \/ VoidMatch
    \/ TriggerRecompute
    \/ TakeStatsJob
    \/ StatsJobCommit(Workers)

SpecStats == Init /\ [][NextStats]_vars

(***************************************************************************)
(* Measures used by the properties.                                        *)
(***************************************************************************)
\* the fixed score effect of an event of type t
Delta(t) ==
    IF t = GOAL THEN 1 ELSE IF t = GAMELLIZED THEN -1
    ELSE IF t = LOBBED THEN -3 ELSE 0

RECURSIVE SumDeltas(_, _)
\* the sum of the deltas of side's events in evs that are not undone
SumDeltas(evs, side) ==
    IF evs = <<>> THEN 0
    ELSE LET e == evs[Len(evs)] IN
         SumDeltas(SubSeq(evs, 1, Len(evs) - 1), side)
           + (IF e.team = side /\ e.undone_at = NULL
              THEN Delta(e.event_type) ELSE 0)

\* C1: over any step that is a recordEvent or an undoEvent (or any request
\* other than setScore), each side's running score moves by exactly the
\* change of the sum of the fixed deltas of that side's events that are not
\* undone: the score after a sequence is the score before it plus those
\* deltas, and undoing every event gives the score before the first.
C1_ScoreFollowsDeltas ==
    [][ last'.op # "setScore" =>
          /\ session'.team_a_score - session.team_a_score
               = SumDeltas(events', "A") - SumDeltas(events, "A")
          /\ session'.team_b_score - session.team_b_score
               = SumDeltas(events', "B") - SumDeltas(events, "B") ]_vars

\* C1 witness: lobbed on side A at 2-0 gave -1-0, and its undo gave 2-0 back
C1_Witness ==
    /\ last.op = "undoEvent" /\ last.error = "ok"
    /\ session.team_a_score = 2 /\ session.team_b_score = 0
    /\ \E i \in DOMAIN events :
          /\ events[i].event_type = LOBBED /\ events[i].team = "A"
          /\ events[i].undone_at # NULL
          /\ \A j \in DOMAIN events : j # i => events[j].undone_at = NULL

\* a request slot r holds a request that this step commits or rolls back
Returns(r) == reqs[r] # Idle /\ reqs'[r] = Idle

\* a request slot r is taken by this step
Begins(r) == reqs[r] = Idle /\ reqs'[r] # Idle

Score(s, side) == IF side = "A" THEN s.team_a_score ELSE s.team_b_score

OtherSide(side) == IF side = "A" THEN "B" ELSE "A"

\* C2 (as stated, refuted by Spec): a confirmed finalize request that
\* begins when the committed session already points at a finalized match is
\* rejected with CONFLICT, sends no rating or stats job, and its return
\* adds no match and leaves finalized_match_id as it was.
C2_LaterFinalizeConflicts ==
    [][ \A r \in Reqs :
          /\ ( /\ Begins(r)
               /\ reqs'[r].op = "finalize"
               /\ reqs'[r].confirm
               /\ session.finalized_match_id # NULL )
             => /\ reqs'[r].error = "CONFLICT"
                /\ ratings_queue' = ratings_queue
                /\ stats_queue' = stats_queue
          /\ ( /\ Returns(r)
               /\ reqs[r].op = "finalize"
               /\ reqs[r].seen.finalized_match_id # NULL )
             => /\ matches' = matches
                /\ session'.finalized_match_id = session.finalized_match_id
      ]_vars

\* C3: when an accepted recordEvent request for one side commits, its event
\* joins the committed log, the committed score of the other side is left as
\* it is (whatever a concurrent request for that side has committed since
\* this one read the session), and its own side's committed score, if no
\* one changed it since this request read it, moves by exactly the event's
\* delta: two concurrent requests for opposite sides each count once.
C3_OppositeSidesBothCount ==
    [][ \A r \in Reqs :
          ( /\ Returns(r)
            /\ reqs[r].op = "recordEvent"
            /\ reqs[r].error = "ok" )
          => LET e == reqs[r].add_events[1] IN
             /\ events' = Append(events, e)
             /\ Score(session', OtherSide(e.team))
                  = Score(session, OtherSide(e.team))
             /\ Score(session, e.team) = Score(reqs[r].seen, e.team)
                  => Score(session', e.team)
                       = Score(session, e.team) + Delta(e.event_type)
      ]_vars

\* C3 witness: a goal for A and a lobbed for B were recorded by two requests
\* that both read 0-0 (the last response still shows A at 0), and the
\* committed score holds both deltas, 1 and -3
C3_Witness ==
    /\ last.op = "recordEvent" /\ last.error = "ok"
    /\ Len(events) = 2
    /\ events[1].team = "A" /\ events[1].event_type = GOAL
    /\ events[2].team = "B" /\ events[2].event_type = LOBBED
    /\ last.obj.team_a_score = 0 /\ last.obj.team_b_score = -3
    /\ session.team_a_score = 1 /\ session.team_b_score = -3

\* C4 (as stated, refuted by Spec): when a recordEvent or undoEvent request
\* commits on a session whose committed score equals the sum of the deltas
\* of its committed events that are not undone, the score still equals that
\* sum afterwards.
C4_ScoreMatchesLog ==
    [][ \A r \in Reqs :
          ( /\ Returns(r)
            /\ reqs[r].op \in {"recordEvent", "undoEvent"}
            /\ \A side \in {"A", "B"} :
                  Score(session, side) = SumDeltas(events, side) )
          => \A side \in {"A", "B"} :
                Score(session', side) = SumDeltas(events', side)
      ]_vars

\* C5 (as stated, refuted by Spec): the session has at most one permanent
\* match, and at most one rating job has been sent for it.
C5_OneMatchOneJob ==
    /\ Cardinality(matches) <= 1
    /\ BagCardinality(ratings_queue) <= 1

\* the rating snapshots of match m among the rows snaps
SnapshotsOf(snaps, m) ==
    {r \in snaps : r.as_of_match_id = m.id /\ r.mode = m.mode}

\* the rows snaps hold exactly one rating snapshot of m per participant
OnePerParticipant(snaps, m) ==
    /\ \A p \in m.team_a \cup m.team_b :
          Cardinality({r \in SnapshotsOf(snaps, m) : r.player_id = p}) = 1
    /\ \A r \in SnapshotsOf(snaps, m) : r.player_id \in m.team_a \cup m.team_b

\* no rating job is queued or running
RatingsDrained ==
    /\ ratings_queue = EmptyBag
    /\ \A w \in Workers : workers[w] = Idle

C7_SecondRunIsNoOp ==
    [][ ( /\ last'.op = "stats job"
          /\ BagCardinality(stats_queue') < BagCardinality(stats_queue)
          /\ \E x \in stats_snapshots :
                x.data = {m.id : m \in ValidMatches} )
        => /\ last'.error = "skipped: Stats unchanged"
           /\ workers' = workers
           /\ stats_snapshots' = stats_snapshots
      ]_vars

\* C7 witness: the job was skipped as unchanged over two valid matches that
\* share their played_at (the query may return them in either order)
C7_Witness ==
    /\ last.op = "stats job"
    /\ last.error = "skipped: Stats unchanged"
    /\ \E m1, m2 \in ValidMatches : m1 # m2 /\ m1.played_at = m2.played_at
    /\ \A x \in stats_snapshots : x.data = {m.id : m \in ValidMatches}
    /\ stats_snapshots # {}

\* C8 (as stated, refuted by SpecRatings): when every valid match has been
\* rated, no job is pending and no two valid matches share their played_at,
\* the bulk recalculation gives every (player, match, mode) the rating it
\* had before.
C8_BulkEqualsIncremental ==
    [][ ( /\ last'.op = "recalculateRatings"
          /\ clock' # clock
          /\ RatingsDrained
          /\ \A m \in ValidMatches : OnePerParticipant(rating_snapshots, m)
          /\ \A m1, m2 \in ValidMatches :
                m1 # m2 => m1.played_at # m2.played_at )
        => \A r \in rating_snapshots, b \in rating_snapshots' :
              ( /\ r.player_id = b.player_id
                /\ r.as_of_match_id = b.as_of_match_id
                /\ r.mode = b.mode )
              => r.rating = b.rating
      ]_vars

\* nothing is in flight and nothing is queued: no job will run any more
Quiescent ==
    /\ \A r \in Reqs : reqs[r] = Idle
    /\ \A w \in Workers : workers[w] = Idle
    /\ ratings_queue = EmptyBag
    /\ stats_queue = EmptyBag

\* C9 (as stated, refuted by Spec): once the queues are drained and nothing
\* is in flight, every match a finalize has committed has exactly one
\* rating snapshot per participant and is in the stored stats snapshots.
C9_FinalizedMatchIsRatedAndCounted ==
    Quiescent =>
      \A m \in matches :
        /\ \A p \in m.team_a \cup m.team_b :
              Cardinality({r \in rating_snapshots :
                              /\ r.player_id = p
                              /\ r.as_of_match_id = m.id
                              /\ r.mode = m.mode}) = 1
        /\ stats_snapshots # {}
        /\ \A x \in stats_snapshots : m.id \in x.data

\* the transition table of the session state machine
TransitionTable ==
    { <<WAITING, ACTIVE>>, <<ACTIVE, PAUSED>>, <<PAUSED, ACTIVE>>,
      <<ACTIVE, COMPLETED>>, <<PAUSED, COMPLETED>>,
      <<WAITING, ABANDONED>>, <<ACTIVE, ABANDONED>>, <<PAUSED, ABANDONED>> }

\* C10 (as stated, refuted by Spec): a changeStatus request is accepted only
\* when the status it found and the one it asks for are a pair of the
\* table, a rejected one leaves the committed status, started_at and
\* ended_at as they are, and no step moves the committed session out of
\* completed or abandoned.
C10_TransitionTable ==
    [][ /\ session.status \in {COMPLETED, ABANDONED}
             => session'.status = session.status
        /\ \A r \in Reqs :
             (Returns(r) /\ reqs[r].op = "changeStatus")
             => IF reqs[r].error = "ok"
                THEN <<reqs[r].seen.status, reqs[r].obj.status>>
                        \in TransitionTable
                ELSE /\ session'.status = session.status
                     /\ session'.started_at = session.started_at
                     /\ session'.ended_at = session.ended_at
      ]_vars

(***************************************************************************)
(* C11-C14: the state guards of the session operations.                    *)
(***************************************************************************)
\* C11: recordEvent is accepted only on a waiting or active session; a
\* rejected one appends no event and leaves the score unchanged; an accepted
\* one on a waiting session leaves it active with started_at stamped; and
\* started_at, once stamped, never changes again.
C11_RecordOnlyWhenLive ==
    [][ /\ \A r \in Reqs :
              Begins(r) /\ reqs'[r].op = "recordEvent" =>
                  (reqs'[r].error = "ok" <=> session.status \in {WAITING, ACTIVE})
        /\ \A r \in Reqs :
              Returns(r) /\ reqs[r].op = "recordEvent" =>
                  IF reqs[r].error # "ok"
                  THEN /\ events' = events
                       /\ session'.team_a_score = session.team_a_score
                       /\ session'.team_b_score = session.team_b_score
                  ELSE reqs[r].seen.status = WAITING =>
                          /\ session'.status = ACTIVE
                          /\ session'.started_at # NULL
        /\ session.started_at # NULL =>
              session'.started_at = session.started_at ]_vars

\* C12: undoEvent succeeds only for an event of the session's log that is
\* not undone yet; a rejected one leaves the score and every undone mark
\* unchanged; no event is ever removed and no undone mark is ever cleared.
C12_UndoOnlyLiveEvents ==
    [][ /\ \A r \in Reqs :
              Returns(r) /\ reqs[r].op = "undoEvent" =>
                  IF reqs[r].error = "ok"
                  THEN /\ reqs[r].undo \in DOMAIN events
                       /\ events[reqs[r].undo].undone_at = NULL
                       /\ events'[reqs[r].undo].undone_at # NULL
                  ELSE /\ events' = events
                       /\ session'.team_a_score = session.team_a_score
                       /\ session'.team_b_score = session.team_b_score
        /\ Len(events') >= Len(events)
        /\ \A i \in DOMAIN events :
              /\ [events'[i] EXCEPT !.undone_at = NULL]
                    = [events[i] EXCEPT !.undone_at = NULL]
              /\ events[i].undone_at # NULL => events'[i].undone_at # NULL
      ]_vars

\* C13: recordEvent, undoEvent and setScore on a completed or abandoned
\* session are rejected and leave the score and the event log unchanged.
C13_TerminalSessionIsFrozen ==
    [][ /\ session.status \in {COMPLETED, ABANDONED}
        /\ last'.op \in {"recordEvent", "undoEvent", "setScore"}
        => /\ last'.error # "ok"
           /\ events' = events
           /\ session'.team_a_score = session.team_a_score
           /\ session'.team_b_score = session.team_b_score ]_vars

\* C14: a session whose finalized_match_id is set is completed, and once it
\* is set neither the status nor the finalized_match_id changes again.
C14_FinalizedIsCompletedForGood ==
    /\ [](session.finalized_match_id # NULL => session.status = COMPLETED)
    /\ [][ session.finalized_match_id # NULL =>
              /\ session'.status = session.status
              /\ session'.finalized_match_id = session.finalized_match_id
         ]_vars

(***************************************************************************)
(* C15: what finalize carries over to the match's event log.               *)
(***************************************************************************)
\* the session's events that are not undone and are a penalty
Penalties(evs) ==
    SelectSeq(evs, LAMBDA le :
        le.undone_at = NULL /\ le.event_type \in {GAMELLIZED, LOBBED})

\* C15: the event log of the match an accepted finalize creates has one
\* entry for each session event that is not undone and is gamellized or
\* lobbed, in order, and no other entry.
C15_PenaltiesCarriedOver ==
    [][ last'.op = "finalize" /\ last'.error = "ok" =>
          \E m \in matches' \ matches :
              /\ Len(m.events) = Len(Penalties(events))
              /\ \A i \in DOMAIN m.events :
                    m.events[i].against_player_id
                        = Penalties(events)[i].against_player_id ]_vars

(***************************************************************************)
(* SpecCreate: the creation of a live session, routes/live_matches.py      *)
(* create_live_match, over every mode and every participant list of up to  *)
(* MaxPlayers entries.  The caller is a member of the league, the season    *)
(* is one of the league's, and so are the players.                          *)
(***************************************************************************)
MaxPlayers == 4

LivePlayers == Players \cup {"p4"}

\* schemas/live_match.py: team ^[AB]$, position ^(attack|defense)$
LiveMatchPlayerInput ==
    [ player_id : LivePlayers, team : {"A", "B"},
      position : {"attack", "defense"} ]

\* the modes a client may send; LiveMatchMode names all three
LiveMatchMode == {"1v1", "2v2", "2v1"}

LiveMatchCreateInput ==
    [ mode : LiveMatchMode,
      players : UNION { [1..n -> LiveMatchPlayerInput] : n \in 0..MaxPlayers } ]

\* schemas/live_match.py, LiveMatchCreate: mode ^(1v1|2v2)$
LiveMatchCreate(data) == data.mode \in {"1v1", "2v2"}

\* the error keys validate_live_match_players returns
validate_live_match_players(mode, players) ==
    LET expected_count == IF mode = "1v1" THEN 2 ELSE 4
        team_a == SelectSeq(players, LAMBDA p : p.team = "A")
        team_b == SelectSeq(players, LAMBDA p : p.team = "B")
        expected_per_team == IF mode = "1v1" THEN 1 ELSE 2
        team_a_positions == {team_a[i].position : i \in DOMAIN team_a}
        team_b_positions == {team_b[i].position : i \in DOMAIN team_b}
        player_ids == {players[i].player_id : i \in DOMAIN players}
    IN IF Len(players) # expected_count THEN {"players"}
       ELSE IF \/ Len(team_a) # expected_per_team
               \/ Len(team_b) # expected_per_team
       THEN {"teams"}
       ELSE (IF mode = "2v2" /\ team_a_positions # {"attack", "defense"}
             THEN {"team_a_positions"} ELSE {})
            \cup
            (IF mode = "2v2" /\ team_b_positions # {"attack", "defense"}
             THEN {"team_b_positions"} ELSE {})
            \cup
            (IF Len(players) # Cardinality(player_ids)
             THEN {"duplicate_players"} ELSE {})

\* create_live_match: the error it answers, or "ok"
create_live_match(data) ==
    LET player_ids == {data.players[i].player_id : i \in DOMAIN data.players}
    IN IF ~LiveMatchCreate(data) THEN "VALIDATION_ERROR"
       ELSE IF validate_live_match_players(data.mode, data.players) # {}
       THEN "VALIDATION_ERROR"
       ELSE IF Cardinality(player_ids \cap LivePlayers) # Len(data.players)
       THEN "VALIDATION_ERROR"
       ELSE "ok"

\* no session row (and no session-player row) in the database
NoSession == [status |-> "none"]

\* the session row with its session-player rows, as the request commits it
CreateLiveMatch ==
    /\ session = NoSession
    /\ last.op = "idle"
    /\ \E data \in LiveMatchCreateInput :
        /\ clock' = clock + 1
        /\ session' = IF create_live_match(data) = "ok"
                      THEN create_live_match_session(clock + 1)
                              @@ [mode |-> data.mode, players |-> data.players]
                      ELSE session
        /\ last' = [ op |-> "createLiveMatch",
                     error |-> create_live_match(data), obj |-> data ]
        /\ UNCHANGED <<events, matches, rating_snapshots, stats_snapshots,
                       ratings_queue, stats_queue, reqs, workers,
                       league, cache, channel, sse>>

InitCreate ==
    /\ clock = 0
    /\ session = NoSession
    /\ events = <<>>
    /\ matches = {}
    /\ ratings_queue = EmptyBag
    /\ stats_queue = EmptyBag
    /\ rating_snapshots = {}
    /\ stats_snapshots = {}
    /\ reqs = [r \in Reqs |-> Idle]
    /\ workers = [w \in Workers |-> Idle]
    /\ last = Idle
    /\ league = [settings |-> DEFAULT_LEAGUE_SETTINGS]
    /\ cache = <<>>
    /\ channel = <<>>
    /\ sse = NotConnected

NextCreate == CreateLiveMatch

SpecCreate == InitCreate /\ [][NextCreate]_vars

\* the shape the mode asks of the participant list
FitsMode(mode, players) ==
    LET a == SelectSeq(players, LAMBDA p : p.team = "A")
        b == SelectSeq(players, LAMBDA p : p.team = "B")
        pos(t) == {t[i].position : i \in DOMAIN t}
    IN IF mode = "1v1" THEN Len(a) = 1 /\ Len(b) = 1
       ELSE IF mode = "2v2"
       THEN /\ Len(a) = 2 /\ Len(b) = 2
            /\ pos(a) = {"attack", "defense"}
            /\ pos(b) = {"attack", "defense"}
       ELSE {Len(a), Len(b)} = {1, 2}

NoDuplicate(players) ==
    \A i, j \in DOMAIN players :
        players[i].player_id = players[j].player_id => i = j

\* C16: creating a live session is accepted exactly when the participant
\* list fits the mode (1v1: 1+1; 2v2: 2+2 with an attacker and a defender on
\* each side; 2v1: 2+1) and names no player twice; a rejected creation is a
\* validation error and persists no session and no session-player row.
C16_CreateFitsMode ==
    last.op = "createLiveMatch" =>
        /\ last.error = "ok" <=>
              /\ FitsMode(last.obj.mode, last.obj.players)
              /\ NoDuplicate(last.obj.players)
        /\ last.error = "ok" =>
              /\ session # NoSession
              /\ session.players = last.obj.players
        /\ last.error # "ok" =>
              /\ last.error = "VALIDATION_ERROR"
              /\ session = NoSession

(***************************************************************************)
(* C17, C18: the stored stats snapshots.                                   *)
(***************************************************************************)
\* no stats job is queued or running
StatsDrained ==
    /\ stats_queue = EmptyBag
    /\ \A w \in Workers : workers[w] = Idle

\* C17: once every enqueued stats job has completed, the stored snapshots
\* are computed from exactly the currently valid matches: none is stored
\* for the empty set, and otherwise every stored one covers the valid set.
C17_SnapshotsFollowValidMatches ==
    StatsDrained =>
        IF ValidMatches = {} THEN stats_snapshots = {}
        ELSE /\ stats_snapshots # {}
             /\ \A s \in stats_snapshots :
                   s.data = {m.id : m \in ValidMatches}

\* C18: at most one stats snapshot per kind is committed, and the committed
\* snapshots of all kinds carry the same source hash.
C18_OneSnapshotPerKindOneHash ==
    /\ \A s, t \in stats_snapshots :
          s.snapshot_type = t.snapshot_type => s = t
    /\ \A s, t \in stats_snapshots : s.source_hash = t.source_hash
    /\ stats_snapshots # {} =>
          {s.snapshot_type : s \in stats_snapshots} = SnapshotTypes

\* the commit of a stats job has collided with the rows another job
\* committed meanwhile, and a snapshot of every kind is stored
C18_Witness ==
    /\ last.op = "stats job commit"
    /\ last.error = "raise: IntegrityError"
    /\ {s.snapshot_type : s \in stats_snapshots} = SnapshotTypes

(***************************************************************************)
(* SpecEtag: matches are created and their stats jobs run, the owner        *)
(* changes the settings of the league, and a client reads the leaderboards, *)
(* presenting no token, the ETag of the response it holds, or the hash of   *)
(* a stored snapshot.                                                       *)
(***************************************************************************)
IfNoneMatch ==
    {<<>>}
    \cup { <<cache[i].etag>> : i \in DOMAIN cache }
    \cup { <<[quoted |-> q, value |-> s.source_hash]>> :
              q \in BOOLEAN, s \in stats_snapshots }

UpdateLeagueSettings ==
    \E settings_data \in LeagueSettingsUpdate :
        /\ league' = update_league_settings(league, settings_data)
        /\ last' = [ op |-> "updateSettings", error |-> "ok",
                     obj |-> league'.settings ]
        /\ UNCHANGED <<session, events, matches, rating_snapshots,
                       stats_snapshots, ratings_queue, stats_queue, reqs,
                       workers, clock, cache, channel, sse>>

\* the client keeps a full response that came with an ETag
GetLeaderboards ==
    \E if_none_match \in IfNoneMatch :
        LET resp == get_leaderboards(stats_snapshots, league, if_none_match)
        IN /\ last' = [ op |-> "getLeaderboards", error |-> "ok",
                        obj |-> [ if_none_match |-> if_none_match,
                                  seen |-> LeaderboardsRows(stats_snapshots),
                                  response |-> resp ] ]
           /\ cache' = IF resp.status = 200 /\ resp.etag # <<>>
                       THEN <<[etag |-> resp.etag[1], data |-> resp.data[1]]>>
                       ELSE cache
           /\ UNCHANGED <<session, events, matches, rating_snapshots,
                          stats_snapshots, ratings_queue, stats_queue, reqs,
                          workers, clock, league, channel, sse>>

NextEtag ==
    \/ CreateMatch
    \/ TakeStatsJob
    \/ StatsJobCommit(Workers)
    \/ UpdateLeagueSettings
    \/ GetLeaderboards

SpecEtag == Init /\ [][NextEtag]_vars

\* C19, first part: the read answers 'not modified' exactly when the token
\* presented equals the source hash of the stored snapshot it read.
NotModifiedIffTokenMatches ==
    last.op = "getLeaderboards" =>
        (last.obj.response.status = 304
            <=> /\ last.obj.if_none_match # <<>>
                /\ \E s \in last.obj.seen :
                      last.obj.if_none_match[1].value = s.source_hash)

\* C19, last part: a client whose token the server would answer with 'not
\* modified' holds the payload the server would send in full.
NotModifiedMeansSamePayload ==
    \A i \in DOMAIN cache :
        LET full == get_leaderboards(stats_snapshots, league, <<>>) IN
        get_leaderboards(stats_snapshots, league, <<cache[i].etag>>).status
            = 304
        => cache[i].data = full.data[1]

\* C19: the source hash is a sound cache key of the leaderboards read: 'not
\* modified' exactly when the token equals the stored source hash, two full
\* responses with the same source hash carry the same payload, and a client
\* told 'not modified' holds the payload the server would have sent.
C19_SourceHashIsSoundCacheKey ==
    /\ []NotModifiedIffTokenMatches
    /\ []NotModifiedMeansSamePayload
    /\ [][ \A i \in DOMAIN cache, j \in DOMAIN cache' :
              cache'[j].etag = cache[i].etag
              => cache'[j].data = cache[i].data ]_vars

(***************************************************************************)
(* C20: the order of the rating computations of a league and mode.         *)
(***************************************************************************)
\* C20: rating jobs are serialized: the prior rating a job has used for a
\* participant is that participant's latest committed rating when the job
\* commits, and no rating job is in flight when a bulk recalculation
\* replaces the snapshots.
C20_RatingJobsSerialized ==
    [][ /\ \A w \in Workers :
              /\ workers[w] # Idle
              /\ workers'[w] = Idle
              /\ last'.op = "rating job commit"
              /\ last'.error = "ok"
              => \A p \in DOMAIN workers[w].prior :
                     workers[w].prior[p]
                         \in LatestRatings(rating_snapshots, p, "1v1")
        /\ last'.op = "recalculateRatings" /\ clock' # clock
              => \A w \in Workers : workers[w] = Idle ]_vars

(***************************************************************************)
(* SpecJob: the worker alone with the rows of one match, as the jobs find  *)
(* them in the database, and with the jobs of that match on the two        *)
(* queues, delivered once or twice.  The match rows include the ones the   *)
(* job is written to survive: no match-player row, or rows of one side.    *)
(***************************************************************************)
MaxDeliveries == 2

JobMatches ==
    { [create_match(MatchInput(NULL, "p2"), 1) EXCEPT
          !.team_a = a, !.team_b = b, !.status = st] :
        a \in {{}, {"p1"}}, b \in {{}, {"p2"}}, st \in {"valid", "void"} }

InitJob ==
    /\ clock = 1
    /\ session = create_live_match_session(1)
    /\ events = <<>>
    /\ \E m \in JobMatches : matches = {m}
    /\ \E n \in 0..MaxDeliveries :
          ratings_queue = [j \in {RatingJob(1)} |-> n] (-) EmptyBag
    /\ \E n \in 0..MaxDeliveries :
          stats_queue = [j \in {StatsJob} |-> n] (-) EmptyBag
    /\ rating_snapshots = {}
    /\ stats_snapshots = {}
    /\ reqs = [r \in Reqs |-> Idle]
    /\ workers = [w \in Workers |-> Idle]
    /\ last = [op |-> "create", error |-> "ok", obj |-> session]
    /\ league = [settings |-> DEFAULT_LEAGUE_SETTINGS]
    /\ cache = <<>>
    /\ channel = <<>>
    /\ sse = NotConnected

NextJob ==
    \/ RatingJobRun(Workers)
    \/ RatingJobCommit(Workers)
    \/ StatsJobRun(Workers)
    \/ StatsJobCommit(Workers)

SpecJob == InitJob /\ [][NextJob]_vars

\* the scheduling of Celery: a queued job is eventually taken by a worker
\* process, and a worker process eventually reaches its commit
SpecJobFair == SpecJob /\ WF_vars(NextJob)

\* C21: a rating job for a match with no participants, or with participants
\* on one side only, ends as a skip: no exception is raised, the job is not
\* sent again, and no rating snapshot is written.
C21_OneSidedMatchIsSkipped ==
    (\E m \in matches : m.team_a = {} \/ m.team_b = {}) =>
        /\ rating_snapshots = {}
        /\ \A job \in BagToSet(ratings_queue) : job.retries = 0
        /\ last.op = "rating job" =>
              last.error \in { "skipped: Match is not valid",
                               "error: No players in match" }

\* no job is queued and no worker process has a job in hand
JobsDone ==
    /\ ratings_queue = EmptyBag
    /\ stats_queue = EmptyBag
    /\ \A w \in Workers : workers[w] = Idle

\* the jobs on the two queues
QueuedJobs == BagToSet(ratings_queue) \cup BagToSet(stats_queue)

\* C22: every rating or stats job terminates.  A job is never sent again
\* more than max_retries times, and the n-th retry is sent with a countdown
\* of 2^(n-1) seconds; an execution that raises either sends the job again
\* with one more retry or, at max_retries, drops it for good; and under the
\* scheduling of the workers every job is eventually gone from the queues.
C22_EveryJobTerminates ==
    /\ [](\A job \in QueuedJobs :
             /\ job.retries <= max_retries
             /\ job.retries > 0 => job.countdown = 2 ^ (job.retries - 1))
    /\ [][ /\ last' # last
           /\ last'.op \in {"rating job", "rating job commit",
                            "stats job", "stats job commit"}
           /\ last'.error \in {"raise: ZeroDivisionError",
                               "raise: IntegrityError"}
           => IF last'.obj.retries < max_retries
              THEN [last'.obj EXCEPT !.retries = @ + 1,
                                     !.countdown = 2 ^ last'.obj.retries]
                       \in QueuedJobs'
              ELSE \A job \in QueuedJobs' \ QueuedJobs : FALSE ]_vars
    /\ <>JobsDone

\* a job has raised on its last attempt and is not sent again
C22_Witness ==
    /\ last.error = "raise: ZeroDivisionError"
    /\ last.obj.retries = max_retries
    /\ ratings_queue = EmptyBag


(***************************************************************************)
(* C23.  Every broadcast of a session mutation is published only after     *)
(* the mutation is persisted: at the moment a message goes out on the      *)
(* channel, the committed session (what a subscriber that re-fetches the   *)
(* snapshot reads) already has the status and the scores the message       *)
(* announces, the event it announces, or the undo it announces.            *)
(***************************************************************************)
\* the committed rows s, evs include what the message msg announces
Persisted(msg, s, evs) ==
    IF msg.event = "status_change" THEN s.status = msg.data.status
    ELSE IF msg.event = "score_update"
    THEN /\ s.team_a_score = msg.data.team_a_score
         /\ s.team_b_score = msg.data.team_b_score
    ELSE IF msg.event = "undo"
    THEN /\ msg.data.event_id \in DOMAIN evs
         /\ evs[msg.data.event_id].undone_at # NULL
    ELSE \E i \in DOMAIN evs :
            /\ evs[i].event_type = msg.event
            /\ evs[i].team = msg.data.team

C23_BroadcastAfterPersistence ==
    [][\A i \in (Len(channel) + 1)..Len(channel') :
          Persisted(channel'[i], session', events')]_vars


(***************************************************************************)
(* SpecSse: one subscriber of the session's event stream, next to status   *)
(* changes of the session that publish on the channel.                     *)
(***************************************************************************)
MaxIdle == 32

Min(a, b) == IF a < b THEN a ELSE b

\* pubsub.subscribe(channel), then the "connected" event
Subscribe ==
    /\ sse.pc = "start"
    /\ sse' = [pc |-> "loop", read |-> Len(channel), idle |-> 0,
               out |-> <<format_sse_event("connected")>>]
    /\ UNCHANGED <<session, events, matches, rating_snapshots,
                   stats_snapshots, ratings_queue, stats_queue, reqs,
                   workers, last, clock, league, cache, channel>>

\* one turn of the loop: wait_for(get_message(timeout=1.0), timeout=30.0).
\* get_message answers with the next message as soon as there is one, and
\* with None once its own timeout has passed; wait_for raises TimeoutError
\* only if get_message has not answered within wait_for's timeout
GetMessage ==
    /\ sse.pc = "loop"
    /\ LET pending == sse.read < Len(channel)
           waited == IF pending THEN 0 ELSE get_message_timeout
       IN sse' =
            IF waited > wait_for_timeout
            THEN [sse EXCEPT !.idle = 0,
                     !.out = Append(@, format_sse_event("heartbeat"))]
            ELSE IF pending
            THEN [sse EXCEPT !.idle = 0, !.read = @ + 1,
                     !.out = Append(@,
                         format_sse_event(channel[sse.read + 1].event))]
            ELSE [sse EXCEPT !.idle = Min(@ + waited, MaxIdle)]
    /\ UNCHANGED <<session, events, matches, rating_snapshots,
                   stats_snapshots, ratings_queue, stats_queue, reqs,
                   workers, last, clock, league, cache, channel>>

NextSse ==
    \/ Subscribe
    \/ GetMessage
    \/ ChangeStatus
    \/ Abandon

SpecSse == InitSeq /\ [][NextSse]_vars

(***************************************************************************)
(* C24.  On a subscription with no session activity the stream keeps       *)
(* emitting heartbeats: a connected subscriber is never left without an    *)
(* event for longer than the heartbeat period (30 s, plus the second one   *)
(* poll of the channel may take).                                          *)
(***************************************************************************)
C24_HeartbeatWhenIdle ==
    sse.pc = "loop" => sse.idle <= wait_for_timeout + get_message_timeout


(***************************************************************************)
(* C25.  A permanent match's status only ever changes from valid to void:  *)
(* voiding a valid match sets void with the reason given, a void request   *)
(* on a match that is already void is rejected and changes nothing, and    *)
(* no step removes a match, returns it to valid, or changes its scores,    *)
(* its participants or anything else of it.                                *)
(***************************************************************************)
\* the row n is the row m, at most voided on the way
SameMatchOrVoided(m, n) ==
    \/ n = m
    \/ /\ m.status = "valid"
       /\ \E void_data \in MatchVoidRequest :
             n = [m EXCEPT !.status = "void", !.void_reason = <<void_data>>]

MaxBodyPlayers == 3

\* schemas/match.py: the request body; "ghost" is an id of no player of the
\* league
MatchPlayerInput ==
    [ player_id : Players \cup {"ghost"}, team : {"A", "B"},
      position : {"attack", "defense"} ]

GamelleInput == [ against_player_id : {"p1", "p3", "ghost"} ]

MatchCreateBody ==
    [ mode : {"1v1", "2v2"},
      players : UNION { [1..n -> MatchPlayerInput] : n \in 0..MaxBodyPlayers },
      gamelles : {<<>>} \cup { <<g>> : g \in GamelleInput },
      team_a_score : {10}, team_b_score : {5}, played_at : {NULL} ]

\* validate_match_players: the keys of the errors dict
validate_match_players(mode, players) ==
    LET team_a == { i \in DOMAIN players : players[i].team = "A" }
        team_b == { i \in DOMAIN players : players[i].team = "B" }
        team_a_positions == { players[i].position : i \in team_a }
        team_b_positions == { players[i].position : i \in team_b }
    IN IF mode = "1v1"
       THEN IF Len(players) # 2 THEN {"players"}
            ELSE IF Cardinality(team_a) # 1 \/ Cardinality(team_b) # 1
            THEN {"teams"} ELSE {}
       ELSE IF mode = "2v2"
       THEN IF Len(players) # 4 THEN {"players"}
            ELSE IF Cardinality(team_a) # 2 \/ Cardinality(team_b) # 2
            THEN {"teams"}
            ELSE (IF team_a_positions # {"attack", "defense"}
                  THEN {"team_a_positions"} ELSE {})
                 \cup (IF team_b_positions # {"attack", "defense"}
                       THEN {"team_b_positions"} ELSE {})
       ELSE IF mode = "2v1"
       THEN IF Len(players) # 3 THEN {"players"}
            ELSE IF Cardinality(team_a) # 2 \/ Cardinality(team_b) # 1
            THEN {"teams"}
            ELSE IF team_a_positions # {"attack", "defense"}
            THEN {"team_a_positions"} ELSE {}
       ELSE {}

\* the create_match handler: the error it raises ("ok" if none), the rows
\* it has added and flushed in its transaction by then, and whether it has
\* sent the two jobs
Rejected(message, flushed) ==
    [error |-> message, flushed |-> flushed, enqueued |-> FALSE]

create_match_request(match_data, now) ==
    LET players == match_data.players
        player_ids == [i \in DOMAIN players |-> players[i].player_id]
        db_players == { player_ids[i] : i \in DOMAIN player_ids } \cap Players
        match == [create_match(
                     [ played_at |-> match_data.played_at,
                       team_a_score |-> match_data.team_a_score,
                       team_b_score |-> match_data.team_b_score,
                       team_a |-> { players[i].player_id :
                                     i \in { j \in DOMAIN players :
                                               players[j].team = "A" } },
                       team_b |-> { players[i].player_id :
                                     i \in { j \in DOMAIN players :
                                               players[j].team = "B" } } ],
                     now)
                  EXCEPT !.mode = match_data.mode]
        gamelles == match_data.gamelles
    IN IF validate_match_players(match_data.mode, players) # {}
       THEN Rejected("VALIDATION_ERROR: Invalid match", {})
       ELSE IF Cardinality(db_players) # Len(player_ids)
       THEN Rejected("VALIDATION_ERROR: Players not found", {})
       ELSE IF \E i \in DOMAIN gamelles :
                  \A j \in DOMAIN player_ids :
                     gamelles[i].against_player_id # player_ids[j]
       THEN Rejected(
              "VALIDATION_ERROR: Gamelle against_player must be in match",
              {match})
       ELSE [ error |-> "ok",
              flushed |-> {[match EXCEPT !.events =
                              [i \in DOMAIN gamelles |->
                                 [ event_type |-> "gamelle",
                                   against_player_id |->
                                      gamelles[i].against_player_id,
                                   count |-> 1 ]]]},
              enqueued |-> TRUE ]

\* get_db around the handler: commit, or rollback when the handler raised
get_db_without_rollback(rows, w) == rows \cup w.flushed

get_db(rows, w) == IF w.error = "ok" THEN rows \cup w.flushed ELSE rows

\* POST /matches
PostMatch ==
    /\ last.op = "idle"
    /\ \E match_data \in MatchCreateBody :
          LET w == create_match_request(match_data, clock + 1) IN
          /\ matches' = get_db(matches, w)
          /\ ratings_queue' =
                IF w.enqueued
                THEN enqueue_rating_update(ratings_queue, clock + 1)
                ELSE ratings_queue
          /\ stats_queue' = IF w.enqueued
                            THEN enqueue_stats_recompute(stats_queue)
                            ELSE stats_queue
          /\ last' = [op |-> "createMatch", error |-> w.error,
                      obj |-> match_data]
    /\ clock' = clock + 1
    /\ UNCHANGED <<session, events, rating_snapshots, stats_snapshots, reqs,
                   workers, league, cache, channel, sse>>

InitMatch ==
    /\ clock = 1
    /\ session = create_live_match_session(1)
    /\ events = <<>>
    /\ \E populated \in BOOLEAN :
          /\ matches = IF populated
                       THEN {create_match(MatchInput(NULL, "p2"), 1)} ELSE {}
          /\ ratings_queue = IF populated THEN SetToBag({RatingJob(1)})
                             ELSE EmptyBag
          /\ stats_queue = IF populated THEN SetToBag({StatsJob})
                           ELSE EmptyBag
    /\ rating_snapshots = {}
    /\ stats_snapshots = {}
    /\ reqs = [r \in Reqs |-> Idle]
    /\ workers = [w \in Workers |-> Idle]
    /\ last = Idle
    /\ league = [settings |-> DEFAULT_LEAGUE_SETTINGS]
    /\ cache = <<>>
    /\ channel = <<>>
    /\ sse = NotConnected

NextMatch == PostMatch

SpecMatch == InitMatch /\ [][NextMatch]_vars

(***************************************************************************)
(* C26.  A create-match request that is rejected leaves nothing behind:    *)
(* a request with the wrong player count or sides for its mode, with a     *)
(* duplicate or unknown player, or with a gamelle against a player who is  *)
(* not in the match is rejected, and a rejected request changes neither    *)
(* the stored matches (with their players and events) nor the two queues.  *)
(***************************************************************************)
\* the body has one of the defects named
Defective(body) ==
    LET ps == body.players
        side(t) == { i \in DOMAIN ps : ps[i].team = t }
        n == IF body.mode = "1v1" THEN 1 ELSE 2
    IN \/ Len(ps) # 2 * n
       \/ Cardinality(side("A")) # n
       \/ Cardinality(side("B")) # n
       \/ \E i, j \in DOMAIN ps : i # j /\ ps[i].player_id = ps[j].player_id
       \/ \E i \in DOMAIN ps : ps[i].player_id \notin Players
       \/ \E k \in DOMAIN body.gamelles :
             \A i \in DOMAIN ps :
                ps[i].player_id # body.gamelles[k].against_player_id

C26_RejectedCreateLeavesNothing ==
    [][last'.op = "createMatch" =>
          /\ Defective(last'.obj) => last'.error # "ok"
          /\ last'.error # "ok" =>
                /\ matches' = matches
                /\ ratings_queue' = ratings_queue
                /\ stats_queue' = stats_queue]_vars

C26_Witness ==
    /\ last.op = "createMatch"
    /\ last.error = "VALIDATION_ERROR: Gamelle against_player must be in match"
    /\ Len(last.obj.players) = 2
    /\ matches = {create_match(MatchInput(NULL, "p2"), 1)}
    /\ ratings_queue = SetToBag({RatingJob(1)})
    /\ stats_queue = SetToBag({StatsJob})


(***************************************************************************)
(* C27.  Every permanent match in the store has both side scores within    *)
(* 0..10, so the actual score derived from it, 0.5 + (for - against)/20,   *)
(* lies within 0..1 (here in twentieths: 10 + for - against in 0..20).     *)
(***************************************************************************)
C27_MatchScoresWithinRange ==
    \A m \in matches :
        /\ m.team_a_score \in 0..10
        /\ m.team_b_score \in 0..10
        /\ 10 + m.team_a_score - m.team_b_score \in 0..20


(***************************************************************************)
(* SpecElo: one rating job for a new match, 1v1 or 2v2, between players    *)
(* whose ratings so far (the rows of an earlier match of the same shape)   *)
(* are drawn from EloRatings.                                              *)
(***************************************************************************)
EloRatings == {1100, 1200, 1300}

EloMatch(id, mode, team_a, team_b, score) ==
    [create_match(MatchInput(NULL, "p2"), id) EXCEPT
        !.mode = mode, !.team_a = team_a, !.team_b = team_b,
        !.team_a_score = score[1], !.team_b_score = score[2]]

EloShapes ==
    { <<"1v1", {"p1"}, {"p3"}>>, <<"2v2", {"p1", "p2"}, {"p3", "p4"}>> }

InitElo ==
    /\ clock = 2
    /\ session = create_live_match_session(1)
    /\ events = <<>>
    /\ \E shape \in EloShapes, score \in {<<10, 5>>, <<3, 10>>} :
       \E ratings \in [shape[2] \cup shape[3] -> EloRatings] :
          /\ matches = { EloMatch(1, shape[1], shape[2], shape[3], <<10, 0>>),
                         EloMatch(2, shape[1], shape[2], shape[3], score) }
          /\ rating_snapshots =
                { RatingSnapshot(EloMatch(1, shape[1], shape[2], shape[3],
                                          <<10, 0>>), p, ratings[p], 1) :
                    p \in DOMAIN ratings }
    /\ ratings_queue = SetToBag({RatingJob(2)})
    /\ stats_queue = EmptyBag
    /\ stats_snapshots = {}
    /\ reqs = [r \in Reqs |-> Idle]
    /\ workers = [w \in Workers |-> Idle]
    /\ last = Idle
    /\ league = [settings |-> DEFAULT_LEAGUE_SETTINGS]
    /\ cache = <<>>
    /\ channel = <<>>
    /\ sse = NotConnected

NextElo ==
    \/ RatingJobRun(Workers)
    \/ RatingJobCommit(Workers)

SpecElo == InitElo /\ [][NextElo]_vars

(***************************************************************************)
(* C28.  In a rating update the expected score of every player is that of  *)
(* the player's side: computed from the average rating of the player's own *)
(* side and the average rating of the opposing side, so both teammates of  *)
(* a side are updated with the same expected score.                        *)
(***************************************************************************)
\* the rating the update should give player p of the match from the ratings
\* prior, with the expected score of p's side
SideRating(match, prior, p) ==
    LET team_a_avg == Avg2(prior, match.team_a) \div 2
        team_b_avg == Avg2(prior, match.team_b) \div 2
    IN IF p \in match.team_a
       THEN calculate_new_rating(prior[p],
               calculate_expected_score(team_a_avg, team_b_avg),
               calculate_actual_score(match.team_a_score, match.team_b_score))
       ELSE calculate_new_rating(prior[p],
               calculate_expected_score(team_b_avg, team_a_avg),
               calculate_actual_score(match.team_b_score, match.team_a_score))

C28_ExpectedScoreIsTheSides ==
    \A w \in Workers :
        (workers[w] # Idle /\ workers[w].op = "ratings") =>
            \A r \in workers[w].insert :
                \E m \in matches :
                    /\ m.id = r.as_of_match_id
                    /\ r.rating = SideRating(m, workers[w].prior, r.player_id)


(***************************************************************************)
(* SpecBoard: matches are created, and the rating jobs and the stats jobs  *)
(* they trigger are run by the two workers in any order.                   *)
(***************************************************************************)
NextBoard ==
    \/ CreateMatch
    \/ TakeRatingJob
    \/ RatingJobCommit(Workers)
    \/ TakeStatsJob
    \/ StatsJobCommit(Workers)

SpecBoard == Init /\ [][NextBoard]_vars

(***************************************************************************)
(* C29.  Once the rating job and the stats job triggered by a new match    *)
(* have both completed, in whichever order the queues delivered them, the  *)
(* Elo board of the stored leaderboards snapshot shows for each            *)
(* participant the rating of the participant's most recent rating          *)
(* snapshot.                                                               *)
(***************************************************************************)
\* no job is waiting or running
AllJobsCompleted ==
    /\ ratings_queue = EmptyBag
    /\ stats_queue = EmptyBag
    /\ \A w \in Workers : workers[w] = Idle

C29_EloBoardShowsLatestRatings ==
    (AllJobsCompleted /\ matches # {}) =>
        /\ \E x \in stats_snapshots : x.snapshot_type = "leaderboards"
        /\ \A x \in stats_snapshots :
              x.snapshot_type = "leaderboards" =>
                 \A m \in ValidMatches :
                    \A p \in m.team_a \cup m.team_b :
                       /\ p \in DOMAIN x.elo
                       /\ x.elo[p] \in LatestRatingsAnyMode(rating_snapshots, p)


(***************************************************************************)
(* SpecWins: the stats job on a league of one or two matches, won by       *)
(* either side or ending with equal scores.                                *)
(***************************************************************************)
WinScores == {<<10, 5>>, <<5, 5>>, <<3, 10>>}

InitWins ==
    /\ clock = 2
    /\ session = create_live_match_session(1)
    /\ events = <<>>
    /\ \E first \in WinScores :
       \E more \in SUBSET { EloMatch(2, "1v1", {b}, {"p1"}, score) :
                              b \in {"p2", "p3"}, score \in WinScores } :
          /\ Cardinality(more) <= 1
          /\ matches = {EloMatch(1, "1v1", {"p1"}, {"p2"}, first)} \cup more
    /\ \E n \in 1..MaxDeliveries :
          stats_queue = [j \in {StatsJob} |-> n]
    /\ ratings_queue = EmptyBag
    /\ rating_snapshots = {}
    /\ stats_snapshots = {}
    /\ reqs = [r \in Reqs |-> Idle]
    /\ workers = [w \in Workers |-> Idle]
    /\ last = Idle
    /\ league = [settings |-> DEFAULT_LEAGUE_SETTINGS]
    /\ cache = <<>>
    /\ channel = <<>>
    /\ sse = NotConnected

NextWins ==
    \/ StatsJobRun(Workers)
    \/ StatsJobCommit(Workers)

SpecWins == InitWins /\ [][NextWins]_vars

(***************************************************************************)
(* C30.  A player is credited with a win only if the score of the player's *)
(* side is strictly greater than the other side's: the win count of the    *)
(* stored leaderboards is the number of matches the player's side won      *)
(* with a strictly greater score, and a match with equal scores credits    *)
(* no one.                                                                 *)
(***************************************************************************)
StrictlyWon(m, p) ==
    \/ p \in m.team_a /\ m.team_a_score > m.team_b_score
    \/ p \in m.team_b /\ m.team_b_score > m.team_a_score

C30_WinNeedsGreaterScore ==
    \A x \in stats_snapshots :
        x.snapshot_type = "leaderboards" =>
            \A p \in DOMAIN x.wins :
                x.wins[p] = Cardinality({ m \in matches :
                                            m.id \in x.data /\ StrictlyWon(m, p) })

=============================================================================
